---- MODULE Spec2Model ----
(***************************************************************************)
(* State-machine model of stimulus-pdf-viewer:                             *)
(*   - CoreViewer (load, renderPage, setScale, scroll/resize handlers)     *)
(*   - RenderingQueue (renderHighestPriority and its helpers)              *)
(*   - FindController (lazy text extraction, find, match navigation)       *)
(* JavaScript is single threaded: one action is one run-to-completion     *)
(* stretch of code between two awaits.  A promise continuation that is     *)
(* already queued (a microtask) runs before any further DOM event or       *)
(* timer, which the event actions' guards express.                         *)
(***************************************************************************)
EXTENDS Integers, Sequences, FiniteSets, TLC

\* ------------------------------------------------------------- bounds ----
\* Largest numPages a loaded document reports.
MaxPages == 2
\* Number of distinct display scales the host may ask for.
NumScales == 2
\* Largest number of pages that intersect the scroll container at once.
MaxVisible == 2
\* Number of scroll / resize / setScale events the host delivers in a run.
MaxEvents == 2
\* The same in the specification with fairness, SpecLive.
LiveEvents == 1
\* Largest document of the page-selection specification SpecPick.
PickPages == 5
\* Number of pages of the document of the single-run specification SpecRun.
RunPages == 10
\* Number of PDF documents the FindController can be given.
NumDocs == 2
\* Largest number of pages of such a document.
MaxFindPages == 2
\* Number of setDocument / find / findNext / findPrevious calls in a run.
MaxFindCalls == 3
\* Largest document of the single-extraction specification SpecOrder.
OrderPages == 4
\* Number of distinct listener functions registered on the EventBus.
NumListeners == 2
\* Number of on / off / dispatch calls made on the EventBus in a run.
MaxBusCalls == 4
\* Precision of a JavaScript number in the model: significant bits (53 in
\* the program) and bits after the binary point of the smallest step.
MantissaBits == 6
FracBits == 4
\* Largest screen coordinate, in pixels, of a point given to the geometry engine.
MaxCoord == 4
\* Largest screen coordinate, in pixels, of a selection rectangle.
RectCoord == 2
\* Largest horizontal coordinate, in document units, of a rect to merge.
MergeCoord == 4
\* Largest screen x coordinate, in steps of 8 pixels, of a point of a stroke.
StrokeCoord == 3

\* ---------------------------------------------------- program constants --
INITIAL == 0
RUNNING == 1
PAUSED == 2
FINISHED == 3
preRenderCount == 2
\* JavaScript null for a page number (page numbers are 1-based).
NullPage == 0
\* renderedScale of a page record that was never rendered (the field is absent).
NoScale == 0
\* FindState
FOUND == 0
NOT_FOUND == 1
WRAPPED == 2
PENDING == 3
\* pdfDocument = null
NullDocument == 0

Scales == 1..NumScales
Directions == {"down", "up"}

VARIABLES
  loadState,        \* position of CoreViewer.load: new, fetching, placeholders, loaded, failed
  pdfDocument,      \* CoreViewer.pdfDocument is set
  pageCount,        \* CoreViewer.pageCount
  pages,            \* CoreViewer.pages: page number -> page record
  displayScale,     \* CoreViewer.displayScale
  scrollDirection,  \* CoreViewer._scrollDirection
  viewport,         \* pages that intersect the scroll container: <<first, last>>
  renders,          \* position of the renderPage call that holds each page
  microtasks,       \* renderHighestPriority calls whose awaited renderPage resolved
  spinning,         \* a renderHighestPriority chain re-selects a page that has no record
  idleTimeout,      \* RenderingQueue._idleTimeout: none, armed, fired
  events,           \* scroll / resize / setScale events delivered so far
  renderLog,        \* history: pages in the order their renders completed
  picked,           \* result of the last direct _getHighestPriorityPage call, if any
  docs,             \* the PDF documents at hand: document -> page number -> page text
  findDocument,     \* FindController.pdfDocument
  pageContents,     \* FindController.pageContents: page number -> extracted text
  query,            \* FindController.query
  caseSensitive,    \* FindController.caseSensitive
  entireWord,       \* FindController.entireWord
  matches,          \* FindController.matches
  currentMatchIndex,\* FindController.currentMatchIndex
  findState,        \* FindController.state
  extracting,       \* FindController.extracting
  extractionComplete, \* FindController.extractionComplete
  extractions,      \* the suspended _extractTextLazily calls, each with its position
  updates,          \* onUpdateState calls made by the latest step, in order
  findCalls,        \* setDocument / find / findNext / findPrevious calls so far
  searched,         \* history: find had a non-empty query since the last setDocument
  listeners,        \* EventBus._listeners[eventName] of one event name
  dispatches,       \* the EventBus.dispatch calls in progress, innermost last
  invoked,          \* history: the registrations whose listener was called, in order
  busCalls,         \* on / off / dispatch calls made so far
  pageRect,         \* pageContainer.getBoundingClientRect() of the page at hand
  viewScale,        \* viewer.getScale()
  args,             \* arguments of the geometry calls, the original ones first
  results,          \* values returned by the geometry calls made so far, in order
  childNodes,       \* span.childNodes of one text-layer span: text nodes and highlights
  wraps,            \* history: the ranges given to _wrapTextInHighlight for the span
  annotations,      \* AnnotationManager.annotations: id -> annotation
  annotationsByPage,\* AnnotationManager.annotationsByPage: page -> annotations in order
  store,            \* the backend behind the store: the annotations kept and trashed
  requests,         \* the store calls that manager methods are awaiting
  storeCalls,       \* manager methods called so far
  errors            \* _dispatchError calls so far

rvars == <<loadState, pdfDocument, pageCount, pages, displayScale, scrollDirection,
           viewport, renders, microtasks, spinning, idleTimeout, events>>

\* History and probe variables: no handler of the program reads them.
gvars == <<renderLog, picked>>

\* State of the FindController and the documents it is given.
fvars == <<docs, findDocument, pageContents, query, caseSensitive, entireWord, matches,
           currentMatchIndex, findState, extracting, extractionComplete, extractions,
           updates, findCalls, searched>>

\* State of the EventBus.
bvars == <<listeners, dispatches, invoked, busCalls>>

\* What the handlers of the viewer and of the FindController leave alone.
\* State around the CoordinateTransformer.
xvars == <<pageRect, viewScale, args, results>>

\* One span of a text layer.
hvars == <<childNodes, wraps>>

\* State of the AnnotationManager and of the backend of its store.
avars == <<annotations, annotationsByPage, store, requests, storeCalls, errors>>

ovars == <<bvars, xvars, hvars, avars>>

vars == <<rvars, gvars, fvars, ovars>>

\* new EventBus()
BusConstructed ==
  /\ listeners = << >>
  /\ dispatches = << >>
  /\ invoked = << >>
  /\ busCalls = 0

\* No page at hand and no geometry call made.
GeometryIdle ==
  /\ pageRect = << >>
  /\ viewScale = 0
  /\ args = << >>
  /\ results = << >>

\* No text layer at hand.
NoSpan ==
  /\ childNodes = << >>
  /\ wraps = << >>

\* new AnnotationManager() over a backend that holds no annotation.
ManagerConstructed ==
  /\ annotations = << >>
  /\ annotationsByPage = << >>
  /\ store = [kept |-> << >>, trashed |-> << >>, nextId |-> 1]
  /\ requests = << >>
  /\ storeCalls = 0
  /\ errors = 0

\* ---------------------------------------------------- FindController ----
\* No _extractTextLazily call is suspended.
NoExtraction == << >>

\* The FindController after its constructor.
FindConstructed ==
  /\ findDocument = NullDocument
  /\ pageContents = << >>
  /\ query = << >>
  /\ caseSensitive = FALSE
  /\ entireWord = FALSE
  /\ matches = << >>
  /\ currentMatchIndex = -1
  /\ findState = PENDING
  /\ extracting = FALSE
  /\ extractionComplete = FALSE
  /\ extractions = NoExtraction
  /\ updates = << >>
  /\ findCalls = 0
  /\ searched = FALSE

\* ------------------------------------------------------- page records ----
\* The record _createPagePlaceholders stores for page pageNum.
NewPageData(pageNum) ==
  [ page |-> (pageNum = 1),
    unitViewport |-> (pageNum = 1),
    renderedScale |-> NoScale,
    renderingState |-> INITIAL ]

\* The renderPage call of a page: not running, awaiting getPage, or awaiting
\* page.render / getTextContent / textLayer.render with displayScale captured.
NoRender == [pc |-> "idle", scale |-> NoScale]

\* <<first, last>> of a non-empty run of consecutive pages of an n-page document.
AllRanges(n) == { r \in (1..n) \X (1..n) : r[1] <= r[2] }

\* The runs of at most MaxVisible pages.
Ranges(n) == { r \in AllRanges(n) : r[2] - r[1] < MaxVisible }

\* ---------------------------------------------------- RenderingQueue ----
\* Faulty variant: a page that is being rendered does not count as rendered.
IsPageRendered_RunningNotCounted(pgs, scale, pageNumber) ==
  IF pageNumber \notin DOMAIN pgs THEN FALSE
  ELSE IF pgs[pageNumber].renderingState = FINISHED
       THEN pgs[pageNumber].renderedScale = scale
       ELSE FALSE

\* _isPageRendered(pageNumber)
IsPageRendered(pgs, scale, pageNumber) ==
  IF pageNumber \notin DOMAIN pgs THEN FALSE
  ELSE IF pgs[pageNumber].renderingState = RUNNING THEN TRUE
  ELSE IF pgs[pageNumber].renderingState = FINISHED
       THEN pgs[pageNumber].renderedScale = scale
       ELSE FALSE

\* for (let page = from; page <= to; page++) if (!_isPageRendered(page)) return page
RECURSIVE ScanUp(_, _, _, _)
ScanUp(pgs, scale, page, to) ==
  IF page > to THEN NullPage
  ELSE IF ~IsPageRendered(pgs, scale, page) THEN page
  ELSE ScanUp(pgs, scale, page + 1, to)

\* for (let page = from; page >= to; page--) if (!_isPageRendered(page)) return page
RECURSIVE ScanDown(_, _, _, _)
ScanDown(pgs, scale, page, to) ==
  IF page < to THEN NullPage
  ELSE IF ~IsPageRendered(pgs, scale, page) THEN page
  ELSE ScanDown(pgs, scale, page - 1, to)

\* for (let i = 1; i <= preRenderCount; i++) { nextPage = last + i; ... }
RECURSIVE ScanAfter(_, _, _, _, _)
ScanAfter(pgs, scale, count, last, i) ==
  IF i > preRenderCount THEN NullPage
  ELSE IF last + i <= count /\ ~IsPageRendered(pgs, scale, last + i) THEN last + i
  ELSE ScanAfter(pgs, scale, count, last, i + 1)

\* for (let i = 1; i <= preRenderCount; i++) { prevPage = first - i; ... }
RECURSIVE ScanBefore(_, _, _, _)
ScanBefore(pgs, scale, first, i) ==
  IF i > preRenderCount THEN NullPage
  ELSE IF first - i >= 1 /\ ~IsPageRendered(pgs, scale, first - i) THEN first - i
  ELSE ScanBefore(pgs, scale, first, i + 1)

\* Faulty variant: the visible pages are scanned in ascending order in both directions.
VisibleScan_AlwaysAscending(pgs, scale, vp) ==
  ScanUp(pgs, scale, vp.first, vp.last)

VisibleScan(pgs, scale, vp) ==
  IF vp.scrollDirection = "down"
  THEN ScanUp(pgs, scale, vp.first, vp.last)
  ELSE ScanDown(pgs, scale, vp.last, vp.first)

\* Faulty variant: the pages before the range are pre-rendered ahead of those after it.
GetHighestPriorityPage_BeforeFirst(pgs, scale, count, vp) ==
  LET visible == VisibleScan(pgs, scale, vp)
      after   == ScanAfter(pgs, scale, count, vp.last, 1)
      before  == ScanBefore(pgs, scale, vp.first, 1)
  IN  IF visible # NullPage THEN visible
      ELSE IF before # NullPage THEN before
      ELSE after

GetHighestPriorityPage(pgs, scale, count, vp) ==
  LET visible == VisibleScan(pgs, scale, vp)
      after   == ScanAfter(pgs, scale, count, vp.last, 1)
      before  == ScanBefore(pgs, scale, vp.first, 1)
  IN  IF visible # NullPage THEN visible
      ELSE IF after # NullPage THEN after
      ELSE before

\* --------------------------------------------------------- CoreViewer ----
\* getVisiblePages: with no page record in the container first and last are
\* null in the loop and the result falls back to page 1.
GetVisiblePages(pgs, vw, dir) ==
  IF DOMAIN pgs = {}
  THEN [first |-> 1, last |-> 1, scrollDirection |-> dir]
  ELSE [first |-> vw[1], last |-> vw[2], scrollDirection |-> dir]

\* renderPage up to its first await, as [pages, render, returned]:
\* returned is TRUE when the call returned before starting a render.
RenderPageStart(pgs, scale, pageNumber) ==
  IF pageNumber \notin DOMAIN pgs
  THEN [pages |-> pgs, render |-> NoRender, returned |-> TRUE]
  ELSE IF pgs[pageNumber].renderingState = RUNNING
  THEN [pages |-> pgs, render |-> NoRender, returned |-> TRUE]
  ELSE IF pgs[pageNumber].renderingState = FINISHED
          /\ pgs[pageNumber].renderedScale = scale
  THEN [pages |-> pgs, render |-> NoRender, returned |-> TRUE]
  ELSE [pages |-> [pgs EXCEPT ![pageNumber].renderingState = RUNNING],
        render |-> IF pgs[pageNumber].page
                   THEN [pc |-> "draw", scale |-> scale]
                   ELSE [pc |-> "getPage", scale |-> NoScale],
        returned |-> FALSE]

\* renderHighestPriority up to its await, from the state (pgs, rnd, scale...):
\* the new page records, renderPage positions, idle timer, and whether the
\* awaited renderPage returned at once (the chain then resumes as a microtask).
RenderHighestPriority(pgs, rnd, scale, count, vp) ==
  LET pageToRender == GetHighestPriorityPage(pgs, scale, count, vp)
      started == RenderPageStart(pgs, scale, pageToRender)
  IN  IF pageToRender # NullPage
      THEN [pages |-> started.pages,
            renders |-> IF started.returned THEN rnd
                        ELSE [rnd EXCEPT ![pageToRender] = started.render],
            idleTimeout |-> "none",
            returned |-> started.returned,
            selected |-> pageToRender]
      ELSE [pages |-> pgs, renders |-> rnd, idleTimeout |-> "armed",
            returned |-> FALSE, selected |-> NullPage]

\* A call of renderHighestPriority(visiblePages) in the state that the caller
\* has produced so far.  A renderPage that returns at once resumes the chain
\* in a microtask; for a page without a record nothing has changed by then,
\* so the chain selects the same page again, without end.
CallRenderHighestPriority(pgs, rnd, scale, vw, dir) ==
  LET r == RenderHighestPriority(pgs, rnd, scale, pageCount,
                                 GetVisiblePages(pgs, vw, dir))
  IN  /\ pages' = r.pages
      /\ renders' = r.renders
      /\ idleTimeout' = r.idleTimeout
      /\ spinning' = (spinning \/ r.returned)

\* No promise continuation is queued: DOM events and timers can be delivered.
TaskBoundary == microtasks = 0 /\ ~spinning

Init ==
  /\ loadState = "new"
  /\ pdfDocument = FALSE
  /\ pageCount = 0
  /\ pages = << >>
  /\ displayScale = 1
  /\ scrollDirection = "down"
  /\ viewport = <<1, 1>>
  /\ renders = << >>
  /\ microtasks = 0
  /\ spinning = FALSE
  /\ idleTimeout = "none"
  /\ events = 0
  /\ renderLog = << >>
  /\ picked = << >>
  /\ BusConstructed
  /\ NoSpan
  /\ ManagerConstructed
  /\ GeometryIdle
  /\ docs = << >>
  /\ FindConstructed

\* load(url) up to `await loadingTask.promise`.
Load ==
  /\ TaskBoundary
  /\ loadState = "new"
  /\ loadState' = "fetching"
  /\ UNCHANGED <<ovars, fvars, gvars, pdfDocument, pageCount, pages, displayScale, scrollDirection,
                 viewport, renders, microtasks, spinning, idleTimeout, events>>

\* The document arrives: load continues up to `await getPage(1)` in
\* _createPagePlaceholders.
LoadDocumentResolved(numPages) ==
  /\ TaskBoundary
  /\ loadState = "fetching"
  /\ loadState' = "placeholders"
  /\ pdfDocument' = TRUE
  /\ pageCount' = numPages
  /\ pages' = << >>
  /\ renders' = << >>
  /\ UNCHANGED <<ovars, fvars, gvars, displayScale, scrollDirection, viewport, microtasks, spinning,
                 idleTimeout, events>>

\* getDocument rejects: the catch block of load dispatches and rethrows.
LoadDocumentRejected ==
  /\ TaskBoundary
  /\ loadState = "fetching"
  /\ loadState' = "failed"
  /\ UNCHANGED <<ovars, fvars, gvars, pdfDocument, pageCount, pages, displayScale, scrollDirection,
                 viewport, renders, microtasks, spinning, idleTimeout, events>>

\* getPage(1) resolves: the placeholders are created, DOCUMENT_LOADED is
\* dispatched and load calls renderHighestPriority(getVisiblePages()).
PlaceholdersResolved(lastVisible) ==
  /\ TaskBoundary
  /\ loadState = "placeholders"
  /\ lastVisible \in 1..pageCount
  /\ loadState' = "loaded"
  /\ viewport' = <<1, lastVisible>>
  /\ LET pgs == [p \in 1..pageCount |-> NewPageData(p)]
         rnd == [p \in 1..pageCount |-> NoRender]
     IN  CallRenderHighestPriority(pgs, rnd, displayScale, viewport', scrollDirection)
  /\ UNCHANGED <<ovars, fvars, gvars, pdfDocument, pageCount, displayScale, scrollDirection, microtasks,
                 events>>

\* getPage(1) rejects inside _createPagePlaceholders: load's catch block runs.
PlaceholdersRejected ==
  /\ TaskBoundary
  /\ loadState = "placeholders"
  /\ loadState' = "failed"
  /\ UNCHANGED <<ovars, fvars, gvars, pdfDocument, pageCount, pages, displayScale, scrollDirection,
                 viewport, renders, microtasks, spinning, idleTimeout, events>>

\* _onScroll.  The container scrolls only when it holds page containers.
OnScroll(range, dir) ==
  /\ TaskBoundary
  /\ DOMAIN pages # {}
  /\ range \in AllRanges(pageCount)
  /\ pdfDocument
  /\ events' = events + 1
  /\ scrollDirection' = dir
  /\ viewport' = range
  /\ CallRenderHighestPriority(pages, renders, displayScale, range, dir)
  /\ UNCHANGED <<ovars, fvars, gvars, loadState, pdfDocument, pageCount, displayScale, microtasks>>

\* _onResize (the ResizeObserver callback).
OnResize(range) ==
  /\ TaskBoundary
  /\ pdfDocument
  /\ IF DOMAIN pages = {} THEN range = viewport ELSE range \in AllRanges(pageCount)
  /\ events' = events + 1
  /\ viewport' = range
  /\ CallRenderHighestPriority(pages, renders, displayScale, range, scrollDirection)
  /\ UNCHANGED <<ovars, fvars, gvars, loadState, pdfDocument, pageCount, displayScale, scrollDirection,
                 microtasks>>

\* Faulty variant: setScale drops the cached page handles and unit viewports.
SetScale_ClearsCache(newScale, range) ==
  /\ TaskBoundary
  /\ newScale \in Scales
  /\ newScale # displayScale
  /\ IF DOMAIN pages = {} THEN range = viewport ELSE range \in AllRanges(pageCount)
  /\ events' = events + 1
  /\ displayScale' = newScale
  /\ viewport' = range
  /\ CallRenderHighestPriority(
       [p \in DOMAIN pages |-> [pages[p] EXCEPT !.page = FALSE, !.unitViewport = FALSE]],
       renders, newScale, range, scrollDirection)
  /\ UNCHANGED <<ovars, fvars, gvars, loadState, pdfDocument, pageCount, scrollDirection, microtasks>>

\* Faulty variant: setScale resets the pages that are not being rendered to INITIAL.
SetScale_ResetsStates(newScale, range) ==
  /\ TaskBoundary
  /\ newScale \in Scales
  /\ newScale # displayScale
  /\ IF DOMAIN pages = {} THEN range = viewport ELSE range \in AllRanges(pageCount)
  /\ events' = events + 1
  /\ displayScale' = newScale
  /\ viewport' = range
  /\ CallRenderHighestPriority(
       [p \in DOMAIN pages |->
          IF pages[p].renderingState = FINISHED
          THEN [pages[p] EXCEPT !.renderingState = INITIAL] ELSE pages[p]],
       renders, newScale, range, scrollDirection)
  /\ UNCHANGED <<ovars, fvars, gvars, loadState, pdfDocument, pageCount, scrollDirection, microtasks>>

\* setScale(scale) with a numeric scale.  The new scale resizes every page
\* container, so the pages that intersect the scroll container may change.
SetScale(newScale, range) ==
  /\ TaskBoundary
  /\ newScale \in Scales
  /\ newScale # displayScale
  /\ IF DOMAIN pages = {} THEN range = viewport ELSE range \in AllRanges(pageCount)
  /\ events' = events + 1
  /\ displayScale' = newScale
  /\ viewport' = range
  /\ CallRenderHighestPriority(pages, renders, newScale, range, scrollDirection)
  /\ UNCHANGED <<ovars, fvars, gvars, loadState, pdfDocument, pageCount, scrollDirection, microtasks>>

\* pdfDocument.getPage(pageNumber) resolves inside renderPage: the page and
\* its unit viewport are cached, displayScale is read, and page.render starts.
GetPageResolved(pageNumber) ==
  /\ ~spinning
  /\ pageNumber \in DOMAIN renders
  /\ renders[pageNumber].pc = "getPage"
  /\ pages' = [pages EXCEPT ![pageNumber].page = TRUE,
                            ![pageNumber].unitViewport = TRUE]
  /\ renders' = [renders EXCEPT ![pageNumber] = [pc |-> "draw", scale |-> displayScale]]
  /\ UNCHANGED <<ovars, fvars, gvars, loadState, pdfDocument, pageCount, displayScale, scrollDirection,
                 viewport, microtasks, spinning, idleTimeout, events>>

\* An awaited step of renderPage rejects: the catch block of renderPage
\* resets the page and rethrows, and the catch block of
\* renderHighestPriority ends the chain.
RenderRejected(pageNumber) ==
  /\ ~spinning
  /\ pageNumber \in DOMAIN renders
  /\ renders[pageNumber].pc \in {"getPage", "draw"}
  /\ pages' = [pages EXCEPT ![pageNumber].renderingState = INITIAL]
  /\ renders' = [renders EXCEPT ![pageNumber] = NoRender]
  /\ UNCHANGED <<ovars, fvars, gvars, loadState, pdfDocument, pageCount, displayScale, scrollDirection,
                 viewport, microtasks, spinning, idleTimeout, events>>

\* Faulty variant: the completed render does not record the scale it was drawn at.
RenderResolved_KeepsScale(pageNumber) ==
  /\ ~spinning
  /\ pageNumber \in DOMAIN renders
  /\ renders[pageNumber].pc = "draw"
  /\ pages' = [pages EXCEPT ![pageNumber].renderingState = FINISHED]
  /\ renders' = [renders EXCEPT ![pageNumber] = NoRender]
  /\ microtasks' = microtasks + 1
  /\ UNCHANGED <<loadState, pdfDocument, pageCount, displayScale, scrollDirection,
                 viewport, spinning, idleTimeout, events>>

\* page.render, getTextContent and textLayer.render have resolved: renderPage
\* records the render and returns; the awaiting chain is queued.
RenderResolved(pageNumber) ==
  /\ ~spinning
  /\ pageNumber \in DOMAIN renders
  /\ renders[pageNumber].pc = "draw"
  /\ pages' = [pages EXCEPT ![pageNumber].renderedScale = renders[pageNumber].scale,
                            ![pageNumber].renderingState = FINISHED]
  /\ renders' = [renders EXCEPT ![pageNumber] = NoRender]
  /\ microtasks' = microtasks + 1
  /\ UNCHANGED <<loadState, pdfDocument, pageCount, displayScale, scrollDirection,
                 viewport, spinning, idleTimeout, events>>

\* Faulty variant: the chain ends after the render it awaited.
ChainContinue_Stops ==
  /\ ~spinning
  /\ microtasks > 0
  /\ microtasks' = microtasks - 1
  /\ UNCHANGED <<ovars, fvars, gvars, loadState, pdfDocument, pageCount, displayScale, scrollDirection,
                 viewport, events, pages, renders, idleTimeout, spinning>>

\* The chain resumes after `await renderPage`: renderHighestPriority().
ChainContinue ==
  /\ ~spinning
  /\ microtasks > 0
  /\ microtasks' = microtasks - 1
  /\ CallRenderHighestPriority(pages, renders, displayScale, viewport, scrollDirection)
  /\ UNCHANGED <<ovars, fvars, gvars, loadState, pdfDocument, pageCount, displayScale, scrollDirection,
                 viewport, events>>

\* The 100 ms idle timer fires and runs the idle callback.
IdleFire ==
  /\ TaskBoundary
  /\ idleTimeout = "armed"
  /\ idleTimeout' = "fired"
  /\ UNCHANGED <<ovars, fvars, gvars, loadState, pdfDocument, pageCount, pages, displayScale,
                 scrollDirection, viewport, renders, microtasks, spinning, events>>

RenderDone(pageNumber) == RenderResolved(pageNumber) /\ UNCHANGED <<ovars, fvars, gvars>>

\* The host's scroll, resize and setScale events, of which a run has at
\* most `budget`.
HostScroll(budget) ==
  events < budget /\ \E r \in Ranges(MaxPages), d \in Directions : OnScroll(r, d)

HostResize(budget) ==
  events < budget /\ \E r \in Ranges(MaxPages) : OnResize(r)

HostSetScale(budget) ==
  events < budget /\ \E s \in Scales, r \in Ranges(MaxPages) : SetScale(s, r)

\* The handlers and continuations of CoreViewer and RenderingQueue.
Next ==
  \/ Load
  \/ \E n \in 1..MaxPages : LoadDocumentResolved(n)
  \/ LoadDocumentRejected
  \/ \E l \in 1..MaxVisible : PlaceholdersResolved(l)
  \/ PlaceholdersRejected
  \/ HostScroll(MaxEvents)
  \/ HostResize(MaxEvents)
  \/ HostSetScale(MaxEvents)
  \/ \E p \in 1..MaxPages : GetPageResolved(p)
  \/ \E p \in 1..MaxPages : RenderRejected(p)
  \/ \E p \in 1..MaxPages : RenderDone(p)
  \/ ChainContinue
  \/ IdleFire

Spec == Init /\ [][Next]_vars

\* ------------------------------------------- renders that all succeed ----
\* The same program when no awaited step of renderPage rejects.
NextOK ==
  \/ Load
  \/ \E n \in 1..MaxPages : LoadDocumentResolved(n)
  \/ LoadDocumentRejected
  \/ \E l \in 1..MaxVisible : PlaceholdersResolved(l)
  \/ PlaceholdersRejected
  \/ HostScroll(LiveEvents)
  \/ HostResize(LiveEvents)
  \/ HostSetScale(LiveEvents)
  \/ \E p \in 1..MaxPages : GetPageResolved(p)
  \/ \E p \in 1..MaxPages : RenderDone(p)
  \/ ChainContinue
  \/ IdleFire

\* The event loop runs every queued continuation and every due timer, and
\* every awaited promise of a render settles.  The host's events are not
\* forced: after the last of them the visible range and the scale are fixed.
Progress ==
  /\ \A p \in 1..MaxPages : WF_vars(GetPageResolved(p)) /\ WF_vars(RenderDone(p))
  /\ WF_vars(ChainContinue)
  /\ WF_vars(IdleFire)

SpecLive == Init /\ [][NextOK]_vars /\ Progress

\* Every handler, renders that fail included, with the same scheduling.
SpecFair == Init /\ [][Next]_vars /\ Progress

\* ------------------------------------------------ one scheduling run ----
\* A RunPages-page document whose pages are all INITIAL and idle (the first
\* render after load was rejected), then one scroll event and the chain
\* of renders it starts, all of which succeed.
InitRun ==
  /\ loadState = "loaded"
  /\ pdfDocument = TRUE
  /\ pageCount = RunPages
  /\ pages = [p \in 1..RunPages |-> NewPageData(p)]
  /\ displayScale = 1
  /\ scrollDirection = "down"
  /\ viewport = <<1, 1>>
  /\ renders = [p \in 1..RunPages |-> NoRender]
  /\ microtasks = 0
  /\ spinning = FALSE
  /\ idleTimeout = "none"
  /\ events = 0
  /\ renderLog = << >>
  /\ picked = << >>
  /\ BusConstructed
  /\ NoSpan
  /\ ManagerConstructed
  /\ GeometryIdle
  /\ docs = << >>
  /\ FindConstructed

RunScheduling(range, dir) == events = 0 /\ OnScroll(range, dir)

RenderLogged(pageNumber) ==
  /\ RenderResolved(pageNumber)
  /\ renderLog' = Append(renderLog, pageNumber)
  /\ UNCHANGED <<ovars, fvars, picked>>

NextRun ==
  \/ \E r \in AllRanges(RunPages), d \in Directions : RunScheduling(r, d)
  \/ \E p \in 1..RunPages : GetPageResolved(p)
  \/ \E p \in 1..RunPages : RenderLogged(p)
  \/ ChainContinue
  \/ IdleFire

SpecRun == InitRun /\ [][NextRun]_vars

\* ------------------------------------------------- page selection -------
\* Page records as the program leaves them: never rendered, rendering,
\* finished at scale 1, finished at scale 2.
PickPageData ==
  { [page |-> FALSE, unitViewport |-> FALSE, renderedScale |-> NoScale,
     renderingState |-> INITIAL],
    [page |-> FALSE, unitViewport |-> FALSE, renderedScale |-> NoScale,
     renderingState |-> RUNNING],
    [page |-> TRUE, unitViewport |-> TRUE, renderedScale |-> 1,
     renderingState |-> FINISHED],
    [page |-> TRUE, unitViewport |-> TRUE, renderedScale |-> 2,
     renderingState |-> FINISHED] }

InitPick ==
  /\ loadState = "loaded"
  /\ pdfDocument = TRUE
  /\ pageCount \in 1..PickPages
  /\ pages \in [1..pageCount -> PickPageData]
  /\ displayScale = 1
  /\ scrollDirection \in Directions
  /\ viewport \in AllRanges(pageCount)
  /\ renders = [p \in 1..pageCount |->
                  IF pages[p].renderingState = RUNNING
                  THEN [pc |-> "getPage", scale |-> NoScale] ELSE NoRender]
  /\ microtasks = 0
  /\ spinning = FALSE
  /\ idleTimeout = "none"
  /\ events = 0
  /\ renderLog = << >>
  /\ picked = << >>
  /\ BusConstructed
  /\ NoSpan
  /\ ManagerConstructed
  /\ GeometryIdle
  /\ docs = << >>
  /\ FindConstructed

\* A call of _getHighestPriorityPage(getVisiblePages()).
PickHighestPriority ==
  /\ picked = << >>
  /\ picked' = << GetHighestPriorityPage(pages, displayScale, pageCount,
                     GetVisiblePages(pages, viewport, scrollDirection)) >>
  /\ UNCHANGED <<ovars, fvars, rvars, renderLog>>

NextPick == PickHighestPriority

SpecPick == InitPick /\ [][NextPick]_vars

\* ------------------------------------------------ FindController: text --
\* Page texts a document may hold (the concatenation _extractPage builds
\* from the text items: item strings, a space after an end-of-line item).
PageTexts == << <<"a", "b">>, <<"A", " ", "a">> >>

\* The text of page p of document d: neighbouring pages differ, and so does
\* the same page of two documents loaded one after the other.
PageText(d, p) == PageTexts[((d + p) % Len(PageTexts)) + 1]

\* The documents at hand: document d has lengths[d] pages.
DocumentsOf(lengths) ==
  [d \in DOMAIN lengths |-> [p \in 1..lengths[d] |-> PageText(d, p)]]

\* Queries the find bar can pass; << >> is the empty string.
Queries == { << >>, <<"a">>, <<"b">> }

\* Values of options.caseSensitive / options.entireWord in a find call.
OptionValues == {"true", "false", "undefined"}

\* String.prototype.toLowerCase on one character and on a string.
LowerChar(c) == IF c = "A" THEN "a" ELSE IF c = "B" THEN "b" ELSE c

ToLowerCase(str) == [i \in 1..Len(str) |-> LowerChar(str[i])]

\* \w of the regular expression.
IsWordChar(c) == c # " "

\* \b at offset k (0-based) of str.
WordBoundary(str, k) ==
  LET before == k >= 1 /\ IsWordChar(str[k])
      after  == k < Len(str) /\ IsWordChar(str[k + 1])
  IN  before # after

\* Faulty variant: the pattern is matched without its \b.
PatternMatchesAt_AnyWord(searchText, pattern, wholeWord, ignoreCase, k) ==
  /\ k + Len(pattern) <= Len(searchText)
  /\ \A i \in 1..Len(pattern) :
       IF ignoreCase THEN LowerChar(searchText[k + i]) = LowerChar(pattern[i])
       ELSE searchText[k + i] = pattern[i]

\* The pattern (escaped literal, optionally between \b) matches at offset k;
\* ignoreCase is the i flag.
PatternMatchesAt(searchText, pattern, wholeWord, ignoreCase, k) ==
  /\ k + Len(pattern) <= Len(searchText)
  /\ \A i \in 1..Len(pattern) :
       IF ignoreCase THEN LowerChar(searchText[k + i]) = LowerChar(pattern[i])
       ELSE searchText[k + i] = pattern[i]
  /\ wholeWord => WordBoundary(searchText, k) /\ WordBoundary(searchText, k + Len(pattern))

\* The while (regex.exec(searchText)) loop of a global regular expression,
\* from lastIndex on: <<startOffset, endOffset>> of each match.
RECURSIVE RegexExecAll(_, _, _, _, _)
RegexExecAll(searchText, pattern, wholeWord, ignoreCase, lastIndex) ==
  IF lastIndex + Len(pattern) > Len(searchText) THEN << >>
  ELSE IF PatternMatchesAt(searchText, pattern, wholeWord, ignoreCase, lastIndex)
       THEN << <<lastIndex, lastIndex + Len(pattern)>> >>
            \o RegexExecAll(searchText, pattern, wholeWord, ignoreCase,
                            lastIndex + Len(pattern))
       ELSE RegexExecAll(searchText, pattern, wholeWord, ignoreCase, lastIndex + 1)

\* _searchPage(pageNum): the matches it pushes, in order.
SearchPage(contents, pageNum, q, cs, ew) ==
  IF pageNum \notin DOMAIN contents THEN << >>
  ELSE LET pageText   == contents[pageNum].str
           pattern    == IF cs THEN q ELSE ToLowerCase(q)
           searchText == IF cs THEN pageText ELSE ToLowerCase(pageText)
           found      == RegexExecAll(searchText, pattern, ew, ~cs, 0)
       IN  [i \in 1..Len(found) |->
              [pageNumber  |-> pageNum,
               startOffset |-> found[i][1],
               endOffset   |-> found[i][2],
               text        |-> SubSeq(pageText, found[i][1] + 1, found[i][2])]]

\* _searchExtractedPages: the cached pages are searched in ascending order.
RECURSIVE SearchFrom(_, _, _, _, _, _)
SearchFrom(contents, pageNum, lastPage, q, cs, ew) ==
  IF pageNum > lastPage THEN << >>
  ELSE SearchPage(contents, pageNum, q, cs, ew)
       \o SearchFrom(contents, pageNum + 1, lastPage, q, cs, ew)

SearchExtractedPages(contents, q, cs, ew) ==
  LET keys == DOMAIN contents
      last == IF keys = {} THEN 0 ELSE CHOOSE k \in keys : \A l \in keys : l <= k
  IN  SearchFrom(contents, 1, last, q, cs, ew)

\* The comparator of _sortMatchesAndFixIndex is negative for (a, b).
MatchBefore(a, b) ==
  \/ a.pageNumber < b.pageNumber
  \/ a.pageNumber = b.pageNumber /\ a.startOffset < b.startOffset

\* Array.prototype.sort with that comparator (stable).
RECURSIVE InsertMatch(_, _)
InsertMatch(sorted, m) ==
  IF sorted = << >> THEN <<m>>
  ELSE IF MatchBefore(m, sorted[Len(sorted)])
       THEN Append(InsertMatch(SubSeq(sorted, 1, Len(sorted) - 1), m), sorted[Len(sorted)])
       ELSE Append(sorted, m)

\* Faulty variant: the matches stay in the order they were pushed.
SortMatches_Unsorted(ms) == ms

RECURSIVE SortMatches(_)
SortMatches(ms) ==
  IF ms = << >> THEN << >>
  ELSE InsertMatch(SortMatches(SubSeq(ms, 1, Len(ms) - 1)), ms[Len(ms)])

\* matches.indexOf(m) (0-based, -1 when absent).  Match objects are compared
\* by their fields: two matches of one list never agree in page and offset.
IndexOf(ms, m) ==
  IF \E i \in 1..Len(ms) : ms[i] = m
  THEN (CHOOSE i \in 1..Len(ms) : ms[i] = m /\ \A j \in 1..(i - 1) : ms[j] # m) - 1
  ELSE -1

\* Faulty variant: the index is left where it was.
SortMatchesAndFixIndex_KeepsIndex(ms, cmi) ==
  [matches |-> SortMatches(ms), currentMatchIndex |-> cmi]

\* _sortMatchesAndFixIndex: [matches, currentMatchIndex] afterwards.
SortMatchesAndFixIndex(ms, cmi) ==
  LET sorted == SortMatches(ms)
  IN  [matches |-> sorted,
       currentMatchIndex |-> IF cmi >= 0 THEN IndexOf(sorted, ms[cmi + 1]) ELSE cmi]

\* The argument of an onUpdateState call.
StateUpdate(st, cmi, ms, ext) ==
  [state |-> st, current |-> cmi + 1, total |-> Len(ms), extracting |-> ext]

\* The pages a..b in ascending order.
PagesFromTo(a, b) == [i \in 1..(b - a + 1) |-> a + i - 1]

\* Faulty variant: the pages after the visible ones come before those before them.
ExtractionOrder_AfterFirst(numPages, firstVisible, lastVisible) ==
  PagesFromTo(firstVisible, lastVisible)
  \o PagesFromTo(lastVisible + 1, numPages)
  \o PagesFromTo(1, firstVisible - 1)

\* extractionOrder of _extractTextLazily.
ExtractionOrder(numPages, firstVisible, lastVisible) ==
  PagesFromTo(firstVisible, lastVisible)
  \o PagesFromTo(1, firstVisible - 1)
  \o PagesFromTo(lastVisible + 1, numPages)

\* The for loop from position i on: the position of the first page that is
\* not in the cache, Len(order) + 1 if there is none.
RECURSIVE NextToExtract(_, _, _)
NextToExtract(contents, order, i) ==
  IF i > Len(order) THEN i
  ELSE IF order[i] \in DOMAIN contents THEN NextToExtract(contents, order, i + 1)
       ELSE i

\* The loop of the call `task` runs on from position i, with `ext` the value
\* of this.extracting: either it suspends in _extractPage, at getPage of the
\* document that is current now, or it ends.  tasks is what is left of the
\* call: itself, suspended, or nothing.
ExtractionLoop(contents, task, i, ext, st, cmi, ms, q) ==
  LET j == NextToExtract(contents, task.order, i)
  IN  IF j <= Len(task.order)
      THEN [tasks |-> << [task EXCEPT !.pc = "getPage", !.index = j,
                                      !.doc = findDocument,
                                      !.fetched = Append(@, task.order[j])] >>,
            extracting |-> ext,
            extractionComplete |-> extractionComplete,
            updates |-> << >>]
      ELSE [tasks |-> << >>,
            extracting |-> FALSE,
            extractionComplete |-> TRUE,
            updates |-> IF q # << >> THEN << StateUpdate(st, cmi, ms, FALSE) >>
                        ELSE << >>]

\* _extractTextLazily up to its loop: numPages, the visible pages and the
\* extraction order it computes; fetched is the history of its _extractPage
\* calls.
NewExtraction(range) ==
  [pc |-> "start", numPages |-> Len(docs[findDocument]), visible |-> range,
   order |-> ExtractionOrder(Len(docs[findDocument]), range[1], range[2]),
   index |-> 0, doc |-> findDocument, fetched |-> << >>]

\* --------------------------------------------- FindController: steps ----
\* setDocument(pdfDocument)
SetDocument(d) ==
  /\ d \in DOMAIN docs
  /\ findCalls' = findCalls + 1
  /\ findDocument' = d
  /\ pageContents' = << >>
  /\ matches' = << >>
  /\ currentMatchIndex' = -1
  /\ extractionComplete' = FALSE
  /\ updates' = << >>
  /\ searched' = FALSE
  /\ UNCHANGED <<ovars, rvars, gvars, docs, query, caseSensitive, entireWord, findState,
                 extracting, extractions>>

\* options.caseSensitive !== this.caseSensitive (likewise entireWord)
OptionDiffers(option, stored) ==
  IF option = "undefined" THEN TRUE ELSE (option = "true") # stored

\* Faulty variant: a running extraction does not keep find from starting another.
ExtractionStarts_IgnoresExtracting ==
  ~extractionComplete /\ findDocument # NullDocument

\* Faulty variant: a finished extraction does not keep find from starting another.
ExtractionStarts_IgnoresComplete ==
  ~extracting /\ findDocument # NullDocument

\* A find call with a non-empty query starts _extractTextLazily: the guard of
\* _ensureTextExtraction and that of _extractTextLazily.
ExtractionStarts ==
  ~(extracting \/ extractionComplete) /\ findDocument # NullDocument

\* Faulty variant: the index moves past the ends of the list.
Navigate_PastEnd(cmi, n, findPrev) ==
  IF findPrev
  THEN [index |-> cmi - 1, state |-> FOUND]
  ELSE [index |-> cmi + 1, state |-> FOUND]

\* Faulty variant: the index wraps but the state is always FOUND.
Navigate_NeverWrapped(cmi, n, findPrev) ==
  IF findPrev
  THEN [index |-> IF cmi - 1 < 0 THEN n - 1 ELSE cmi - 1, state |-> FOUND]
  ELSE [index |-> IF cmi + 1 >= n THEN 0 ELSE cmi + 1, state |-> FOUND]

\* The navigation branch of find with n > 0 matches: the new
\* currentMatchIndex and state.
Navigate(cmi, n, findPrev) ==
  IF findPrev
  THEN IF cmi - 1 < 0
       THEN [index |-> n - 1, state |-> WRAPPED]
       ELSE [index |-> cmi - 1, state |-> FOUND]
  ELSE IF cmi + 1 >= n
       THEN [index |-> 0, state |-> WRAPPED]
       ELSE [index |-> cmi + 1, state |-> FOUND]

\* Faulty variant: an empty query does not clear the matches.
Find_EmptyKeepsMatches(q, cs, ew, findPrev) ==
  \E range \in IF q # << >> /\ ExtractionStarts
               THEN AllRanges(Len(docs[findDocument])) ELSE { <<1, 1>> } :
  LET queryChanged   == q # query
      optionsChanged == OptionDiffers(cs, caseSensitive) \/ OptionDiffers(ew, entireWord)
      newCS  == cs = "true"
      newEW  == ew = "true"
      loop   == IF ExtractionStarts
                THEN ExtractionLoop(pageContents, NewExtraction(range), 1, TRUE,
                                    findState, currentMatchIndex, matches, q)
                ELSE [tasks |-> << >>, extracting |-> extracting,
                      extractionComplete |-> extractionComplete, updates |-> << >>]
      found  == SearchExtractedPages(pageContents, q, newCS, newEW)
      n      == Len(matches)
      moved  == Navigate(currentMatchIndex, n, findPrev)
  IN
  /\ findCalls' = findCalls + 1
  /\ query' = q
  /\ caseSensitive' = newCS
  /\ entireWord' = newEW
  /\ IF q = << >>
     THEN /\ matches' = matches
          /\ currentMatchIndex' = currentMatchIndex
          /\ findState' = PENDING
          /\ updates' = << [state |-> PENDING, current |-> 0, total |-> 0,
                            extracting |-> FALSE] >>
          /\ UNCHANGED <<extracting, extractionComplete, extractions, searched>>
     ELSE /\ extractions' = extractions \o loop.tasks
          /\ extracting' = loop.extracting
          /\ extractionComplete' = loop.extractionComplete
          /\ searched' = TRUE
          /\ IF queryChanged \/ optionsChanged
             THEN /\ matches' = found
                  /\ currentMatchIndex' = IF Len(found) > 0 THEN 0 ELSE -1
                  /\ findState' = IF Len(found) > 0 THEN FOUND
                                  ELSE IF loop.extractionComplete THEN NOT_FOUND
                                  ELSE PENDING
             ELSE /\ matches' = matches
                  /\ currentMatchIndex' = IF n > 0 THEN moved.index ELSE currentMatchIndex
                  /\ findState' = IF n > 0 THEN moved.state ELSE findState
          /\ updates' = loop.updates
                        \o << StateUpdate(findState', currentMatchIndex', matches',
                                          loop.extracting) >>
  /\ UNCHANGED <<ovars, rvars, gvars, docs, findDocument, pageContents>>

\* find(query, options).  If the call starts the extraction, range is what
\* getVisiblePages() of the viewer returns to it.
Find(q, cs, ew, findPrev) ==
  \E range \in IF q # << >> /\ ExtractionStarts
               THEN AllRanges(Len(docs[findDocument])) ELSE { <<1, 1>> } :
  LET queryChanged   == q # query
      optionsChanged == OptionDiffers(cs, caseSensitive) \/ OptionDiffers(ew, entireWord)
      newCS  == cs = "true"
      newEW  == ew = "true"
      loop   == IF ExtractionStarts
                THEN ExtractionLoop(pageContents, NewExtraction(range), 1, TRUE,
                                    findState, currentMatchIndex, matches, q)
                ELSE [tasks |-> << >>, extracting |-> extracting,
                      extractionComplete |-> extractionComplete, updates |-> << >>]
      found  == SearchExtractedPages(pageContents, q, newCS, newEW)
      n      == Len(matches)
      moved  == Navigate(currentMatchIndex, n, findPrev)
  IN
  /\ findCalls' = findCalls + 1
  /\ query' = q
  /\ caseSensitive' = newCS
  /\ entireWord' = newEW
  /\ IF q = << >>
     THEN /\ matches' = << >>
          /\ currentMatchIndex' = -1
          /\ findState' = PENDING
          /\ updates' = << [state |-> PENDING, current |-> 0, total |-> 0,
                            extracting |-> FALSE] >>
          /\ UNCHANGED <<extracting, extractionComplete, extractions, searched>>
     ELSE /\ extractions' = extractions \o loop.tasks
          /\ extracting' = loop.extracting
          /\ extractionComplete' = loop.extractionComplete
          /\ searched' = TRUE
          /\ IF queryChanged \/ optionsChanged
             THEN /\ matches' = found
                  /\ currentMatchIndex' = IF Len(found) > 0 THEN 0 ELSE -1
                  /\ findState' = IF Len(found) > 0 THEN FOUND
                                  ELSE IF loop.extractionComplete THEN NOT_FOUND
                                  ELSE PENDING
             ELSE /\ matches' = matches
                  /\ currentMatchIndex' = IF n > 0 THEN moved.index ELSE currentMatchIndex
                  /\ findState' = IF n > 0 THEN moved.state ELSE findState
          /\ updates' = loop.updates
                        \o << StateUpdate(findState', currentMatchIndex', matches',
                                          loop.extracting) >>
  /\ UNCHANGED <<ovars, rvars, gvars, docs, findDocument, pageContents>>

\* findNext()
FindNext ==
  Find(query, IF caseSensitive THEN "true" ELSE "false",
       IF entireWord THEN "true" ELSE "false", FALSE)

\* findPrevious()
FindPrevious ==
  Find(query, IF caseSensitive THEN "true" ELSE "false",
       IF entireWord THEN "true" ELSE "false", TRUE)

\* The page the suspended _extractPage call of a task is fetching.
ExtractingPage(task) == task.order[task.index]

\* The suspended calls with call t replaced by what is left of it.
Resumed(t, tasks) ==
  SubSeq(extractions, 1, t - 1) \o tasks \o SubSeq(extractions, t + 1, Len(extractions))

\* `await this.pdfDocument.getPage(pageNum)` of _extractPage resolves.
ExtractGetPageResolved(t) ==
  /\ t \in 1..Len(extractions)
  /\ extractions[t].pc = "getPage"
  /\ ExtractingPage(extractions[t]) \in DOMAIN docs[extractions[t].doc]
  /\ extractions' = [extractions EXCEPT ![t].pc = "getTextContent"]
  /\ updates' = << >>
  /\ UNCHANGED <<ovars, rvars, gvars, docs, findDocument, pageContents, query, caseSensitive,
                 entireWord, matches, currentMatchIndex, findState, extracting,
                 extractionComplete, findCalls, searched>>

\* `await page.getTextContent()` resolves: _extractPage stores the page text,
\* the loop searches the page, notifies, and goes on to the next page.
ExtractTextResolved(t) ==
  /\ t \in 1..Len(extractions)
  /\ extractions[t].pc = "getTextContent"
  /\ LET task     == extractions[t]
         pageNum  == ExtractingPage(task)
         contents == [p \in DOMAIN pageContents \cup {pageNum} |->
                        IF p = pageNum THEN [str |-> docs[task.doc][pageNum]]
                        ELSE pageContents[p]]
         added    == SearchPage(contents, pageNum, query, caseSensitive, entireWord)
         merged   == IF Len(added) > 0
                     THEN SortMatchesAndFixIndex(matches \o added, currentMatchIndex)
                     ELSE [matches |-> matches, currentMatchIndex |-> currentMatchIndex]
         after    == IF query # << >> THEN merged
                     ELSE [matches |-> matches, currentMatchIndex |-> currentMatchIndex]
         loop     == ExtractionLoop(contents, task, task.index + 1, extracting, findState,
                                    after.currentMatchIndex, after.matches, query)
     IN
     /\ pageContents' = contents
     /\ matches' = after.matches
     /\ currentMatchIndex' = after.currentMatchIndex
     /\ extractions' = Resumed(t, loop.tasks)
     /\ extracting' = loop.extracting
     /\ extractionComplete' = loop.extractionComplete
     /\ updates' = (IF query # << >>
                    THEN << StateUpdate(findState, after.currentMatchIndex, after.matches,
                                        extracting) >>
                    ELSE << >>) \o loop.updates
  /\ UNCHANGED <<ovars, rvars, gvars, docs, findDocument, query, caseSensitive, entireWord,
                 findState, findCalls, searched>>

\* Faulty variant: the rejection ends the whole loop.
ExtractRejected_EndsLoop(t) ==
  /\ t \in 1..Len(extractions)
  /\ extractions[t].pc \in {"getPage", "getTextContent"}
  /\ extractions' = Resumed(t, << >>)
  /\ extracting' = FALSE
  /\ extractionComplete' = TRUE
  /\ updates' = IF query # << >>
                THEN << StateUpdate(findState, currentMatchIndex, matches, FALSE) >>
                ELSE << >>
  /\ UNCHANGED <<ovars, rvars, gvars, docs, findDocument, pageContents, query, caseSensitive,
                 entireWord, matches, currentMatchIndex, findState, findCalls, searched>>

\* getPage or getTextContent rejects: the catch of the loop logs the error
\* and the loop goes on to the next page.
ExtractRejected(t) ==
  /\ t \in 1..Len(extractions)
  /\ extractions[t].pc \in {"getPage", "getTextContent"}
  /\ LET task == extractions[t]
         loop == ExtractionLoop(pageContents, task, task.index + 1, extracting, findState,
                                currentMatchIndex, matches, query)
     IN
     /\ extractions' = Resumed(t, loop.tasks)
     /\ extracting' = loop.extracting
     /\ extractionComplete' = loop.extractionComplete
     /\ updates' = loop.updates
  /\ UNCHANGED <<ovars, rvars, gvars, docs, findDocument, pageContents, query, caseSensitive,
                 entireWord, matches, currentMatchIndex, findState, findCalls, searched>>

\* The calls the application makes, MaxFindCalls of them in a run.
CallSetDocument == findCalls < MaxFindCalls /\ \E d \in 1..NumDocs : SetDocument(d)

CallFind ==
  /\ findCalls < MaxFindCalls
  /\ \E q \in Queries, cs \in OptionValues, ew \in OptionValues :
       \* options.findPrevious is read only when the call repeats the search
       \E prev \in IF q = << >> \/ q # query \/ OptionDiffers(cs, caseSensitive)
                       \/ OptionDiffers(ew, entireWord)
                    THEN {FALSE} ELSE BOOLEAN :
         Find(q, cs, ew, prev)

CallFindNext == findCalls < MaxFindCalls /\ FindNext

CallFindPrevious == findCalls < MaxFindCalls /\ FindPrevious

\* A constructed viewer whose FindController is given documents and
\* searched while none of the rendering handlers runs.
InitFind ==
  /\ loadState = "new"
  /\ pdfDocument = FALSE
  /\ pageCount = 0
  /\ pages = << >>
  /\ displayScale = 1
  /\ scrollDirection = "down"
  /\ viewport = <<1, 1>>
  /\ renders = << >>
  /\ microtasks = 0
  /\ spinning = FALSE
  /\ idleTimeout = "none"
  /\ events = 0
  /\ renderLog = << >>
  /\ picked = << >>
  /\ BusConstructed
  /\ NoSpan
  /\ ManagerConstructed
  /\ GeometryIdle
  /\ \E lengths \in [1..NumDocs -> 1..MaxFindPages] : docs = DocumentsOf(lengths)
  /\ FindConstructed

NextFind ==
  \/ CallSetDocument
  \/ CallFindNext
  \/ CallFindPrevious
  \/ CallFind
  \/ \E t \in 1..Len(extractions) : ExtractGetPageResolved(t)
  \/ \E t \in 1..Len(extractions) : ExtractTextResolved(t)
  \/ \E t \in 1..Len(extractions) : ExtractRejected(t)

SpecFind == InitFind /\ [][NextFind]_vars

\* ---------------------------------------------- one extraction task ----
\* A FindController that was given one document of 1..OrderPages pages, then
\* one find call with a non-empty query and the extraction it starts, whose
\* fetches resolve or fail.
InitOrder ==
  /\ loadState = "new"
  /\ pdfDocument = FALSE
  /\ pageCount = 0
  /\ pages = << >>
  /\ displayScale = 1
  /\ scrollDirection = "down"
  /\ viewport = <<1, 1>>
  /\ renders = << >>
  /\ microtasks = 0
  /\ spinning = FALSE
  /\ idleTimeout = "none"
  /\ events = 0
  /\ renderLog = << >>
  /\ picked = << >>
  /\ BusConstructed
  /\ NoSpan
  /\ ManagerConstructed
  /\ GeometryIdle
  /\ \E n \in 1..OrderPages : docs = DocumentsOf(<<n>>)
  /\ findDocument = 1
  /\ pageContents = << >>
  /\ query = << >>
  /\ caseSensitive = FALSE
  /\ entireWord = FALSE
  /\ matches = << >>
  /\ currentMatchIndex = -1
  /\ findState = PENDING
  /\ extracting = FALSE
  /\ extractionComplete = FALSE
  /\ extractions = NoExtraction
  /\ updates = << >>
  /\ findCalls = 1
  /\ searched = FALSE

FirstFind ==
  /\ findCalls = 1
  /\ \E q \in Queries \ {<< >>}, ew \in {"true", "false"} : Find(q, "false", ew, FALSE)

NextOrder ==
  \/ FirstFind
  \/ findCalls > 1 /\ CallFindNext
  \/ findCalls > 1 /\ CallFindPrevious
  \/ findCalls > 1 /\ CallFind
  \/ \E t \in 1..Len(extractions) : ExtractGetPageResolved(t)
  \/ \E t \in 1..Len(extractions) : ExtractTextResolved(t)
  \/ \E t \in 1..Len(extractions) : ExtractRejected(t)

SpecOrder == InitOrder /\ [][NextOrder]_vars

\* One search of that document, and its extraction to the end: every fetch
\* of a page is settled, resolved or rejected, in the end.
NextFail ==
  \/ FirstFind
  \/ \E t \in 1..Len(extractions) : ExtractGetPageResolved(t)
  \/ \E t \in 1..Len(extractions) : ExtractTextResolved(t)
  \/ \E t \in 1..Len(extractions) : ExtractRejected(t)

FetchSettles ==
  \E t \in 1..Len(extractions) :
    ExtractRejected(t) \/ ExtractGetPageResolved(t) \/ ExtractTextResolved(t)

SpecFail == InitOrder /\ [][NextFail]_vars /\ WF_vars(FetchSettles)

\* A FindController whose document is extracted in full and searched, in
\* any of the selections that extraction steps and navigation lead to, from
\* which findNext and findPrevious are called.
InitNav ==
  /\ loadState = "new"
  /\ pdfDocument = FALSE
  /\ pageCount = 0
  /\ pages = << >>
  /\ displayScale = 1
  /\ scrollDirection = "down"
  /\ viewport = <<1, 1>>
  /\ renders = << >>
  /\ microtasks = 0
  /\ spinning = FALSE
  /\ idleTimeout = "none"
  /\ events = 0
  /\ renderLog = << >>
  /\ picked = << >>
  /\ BusConstructed
  /\ NoSpan
  /\ ManagerConstructed
  /\ GeometryIdle
  /\ \E n \in 1..OrderPages : docs = DocumentsOf(<<n>>)
  /\ findDocument = 1
  /\ pageContents = [p \in 1..Len(docs[1]) |-> [str |-> docs[1][p]]]
  /\ query \in Queries \ {<< >>}
  /\ caseSensitive \in BOOLEAN
  /\ entireWord \in BOOLEAN
  /\ matches = SearchExtractedPages(pageContents, query, caseSensitive, entireWord)
  /\ currentMatchIndex \in -1..(Len(matches) - 1)
  /\ findState \in IF currentMatchIndex >= 0 THEN {FOUND, WRAPPED}
                   ELSE IF matches = << >> THEN {PENDING, NOT_FOUND} ELSE {PENDING}
  /\ extracting = FALSE
  /\ extractionComplete = TRUE
  /\ extractions = NoExtraction
  /\ updates = << >>
  /\ findCalls = 0
  /\ searched = TRUE

NextNav ==
  \/ CallFindNext
  \/ CallFindPrevious

SpecNav == InitNav /\ [][NextNav]_vars

\* The same FindController, on which find is called as well, with any query
\* and options.
NextRepeat ==
  \/ CallFind
  \/ CallFindNext
  \/ CallFindPrevious

SpecRepeat == InitNav /\ [][NextRepeat]_vars

\* ------------------------------------------------ a document replaced ----
\* A FindController that was given the first of the documents; find and
\* setDocument are called while the fetches of the extraction resolve.  A
\* fetch fails only for a page number the document does not have.
InitSwitch ==
  /\ loadState = "new"
  /\ pdfDocument = FALSE
  /\ pageCount = 0
  /\ pages = << >>
  /\ displayScale = 1
  /\ scrollDirection = "down"
  /\ viewport = <<1, 1>>
  /\ renders = << >>
  /\ microtasks = 0
  /\ spinning = FALSE
  /\ idleTimeout = "none"
  /\ events = 0
  /\ renderLog = << >>
  /\ picked = << >>
  /\ BusConstructed
  /\ NoSpan
  /\ ManagerConstructed
  /\ GeometryIdle
  /\ \E lengths \in [1..NumDocs -> 1..MaxFindPages] : docs = DocumentsOf(lengths)
  /\ findDocument = 1
  /\ pageContents = << >>
  /\ query = << >>
  /\ caseSensitive = FALSE
  /\ entireWord = FALSE
  /\ matches = << >>
  /\ currentMatchIndex = -1
  /\ findState = PENDING
  /\ extracting = FALSE
  /\ extractionComplete = FALSE
  /\ extractions = NoExtraction
  /\ updates = << >>
  /\ findCalls = 0
  /\ searched = FALSE

\* pdfDocument.getPage(pageNum) rejects for a page number out of range.
ExtractMissingPage(t) ==
  /\ t \in 1..Len(extractions)
  /\ extractions[t].pc = "getPage"
  /\ ExtractingPage(extractions[t]) \notin DOMAIN docs[extractions[t].doc]
  /\ ExtractRejected(t)

NextSwitch ==
  \/ CallSetDocument
  \/ CallFind
  \/ \E t \in 1..Len(extractions) : ExtractGetPageResolved(t)
  \/ \E t \in 1..Len(extractions) : ExtractTextResolved(t)
  \/ \E t \in 1..Len(extractions) : ExtractMissingPage(t)

SpecSwitch == InitSwitch /\ [][NextSwitch]_vars

\* ------------------------------------------------------------ EventBus ----
\* The listener functions; a registration is { listener, once } and carries
\* the number of the on call that made it.
Listeners == 1..NumListeners

\* The innermost dispatch call in progress.
InnerDispatch == dispatches[Len(dispatches)]

\* Code that may call the bus runs: the host's, or a listener called by the
\* innermost dispatch.
BusCallable ==
  /\ busCalls < MaxBusCalls
  /\ dispatches # << >> => InnerDispatch.inListener

\* The array left by off(eventName, listener): without the first entry of
\* that listener, if there is one.
Off(eventListeners, listener) ==
  IF \E i \in 1..Len(eventListeners) : eventListeners[i].listener = listener
  THEN LET i == CHOOSE k \in 1..Len(eventListeners) :
                  /\ eventListeners[k].listener = listener
                  /\ \A j \in 1..(k - 1) : eventListeners[j].listener # listener
       IN  SubSeq(eventListeners, 1, i - 1)
           \o SubSeq(eventListeners, i + 1, Len(eventListeners))
  ELSE eventListeners

\* on(eventName, listener, { once })
BusOn(listener, once) ==
  /\ BusCallable
  /\ busCalls' = busCalls + 1
  /\ listeners' = Append(listeners, [listener |-> listener, once |-> once,
                                     reg |-> busCalls + 1])
  /\ UNCHANGED <<rvars, gvars, fvars, xvars, hvars, avars, dispatches, invoked>>

\* off(eventName, listener)
BusOff(listener) ==
  /\ BusCallable
  /\ busCalls' = busCalls + 1
  /\ listeners' = Off(listeners, listener)
  /\ UNCHANGED <<rvars, gvars, fvars, xvars, hvars, avars, dispatches, invoked>>

\* dispatch(eventName, data) up to its loop: it returns at once when there is
\* no listener, and clones the array otherwise.
BusDispatch ==
  /\ BusCallable
  /\ busCalls' = busCalls + 1
  /\ dispatches' = IF listeners = << >> THEN dispatches
                   ELSE Append(dispatches, [listeners |-> listeners, index |-> 0,
                                            inListener |-> FALSE, called |-> << >>])
  /\ UNCHANGED <<rvars, gvars, fvars, xvars, hvars, avars, listeners, invoked>>

\* Faulty variant: the loop runs over the array of the bus itself.
LoopArray_Live(dispatch) == listeners

\* The array the loop of a dispatch call iterates: its clone.
LoopArray(dispatch) == dispatch.listeners

\* One iteration of the loop of the innermost dispatch, up to the call of
\* the listener: a once listener is removed first.
DispatchCallListener ==
  /\ dispatches # << >>
  /\ ~InnerDispatch.inListener
  /\ InnerDispatch.index < Len(LoopArray(InnerDispatch))
  /\ LET entry == LoopArray(InnerDispatch)[InnerDispatch.index + 1]
     IN  /\ listeners' = IF entry.once THEN Off(listeners, entry.listener) ELSE listeners
         /\ dispatches' = [dispatches EXCEPT ![Len(dispatches)] =
                             [@ EXCEPT !.inListener = TRUE,
                                       !.called = Append(@, entry.reg)]]
         /\ invoked' = Append(invoked, [reg |-> entry.reg, once |-> entry.once])
  /\ UNCHANGED <<rvars, gvars, fvars, xvars, hvars, avars, busCalls>>

\* The listener returns to the loop.
ListenerReturns ==
  /\ dispatches # << >>
  /\ InnerDispatch.inListener
  /\ dispatches' = [dispatches EXCEPT ![Len(dispatches)] =
                      [@ EXCEPT !.inListener = FALSE, !.index = @ + 1]]
  /\ UNCHANGED <<rvars, gvars, fvars, xvars, hvars, avars, listeners, invoked, busCalls>>

\* The loop is over and dispatch returns.
DispatchReturns ==
  /\ dispatches # << >>
  /\ ~InnerDispatch.inListener
  /\ InnerDispatch.index >= Len(LoopArray(InnerDispatch))
  /\ dispatches' = SubSeq(dispatches, 1, Len(dispatches) - 1)
  /\ UNCHANGED <<rvars, gvars, fvars, xvars, hvars, avars, listeners, invoked, busCalls>>

\* An EventBus on which the host and the listeners register, remove and
\* dispatch, while no handler of the viewer runs.
InitBus ==
  /\ loadState = "new"
  /\ pdfDocument = FALSE
  /\ pageCount = 0
  /\ pages = << >>
  /\ displayScale = 1
  /\ scrollDirection = "down"
  /\ viewport = <<1, 1>>
  /\ renders = << >>
  /\ microtasks = 0
  /\ spinning = FALSE
  /\ idleTimeout = "none"
  /\ events = 0
  /\ renderLog = << >>
  /\ picked = << >>
  /\ docs = << >>
  /\ FindConstructed
  /\ BusConstructed
  /\ NoSpan
  /\ ManagerConstructed
  /\ GeometryIdle

NextBus ==
  \/ \E l \in Listeners, once \in BOOLEAN : BusOn(l, once)
  \/ \E l \in Listeners : BusOff(l)
  \/ BusDispatch
  \/ DispatchCallListener
  \/ ListenerReturns
  \/ DispatchReturns

SpecBus == InitBus /\ [][NextBus]_vars

\* ------------------------------------------------- JavaScript numbers ----
\* A number is an integer count of steps of 2^-FracBits.  The result of an
\* arithmetic operation is the exact result rounded to the nearest number
\* of MantissaBits significant bits, ties to even; below 2^(MantissaBits-1)
\* steps the numbers are one step apart (the subnormal range).
Num(i) == i * 2^FracBits

Abs(a) == IF a < 0 THEN -a ELSE a

Min(a, b) == IF a < b THEN a ELSE b

Max(a, b) == IF a > b THEN a ELSE b

\* The k with 2^k <= a/d < 2^(k+1), for a >= d > 0.
RECURSIVE Exponent(_, _)
Exponent(a, d) == IF a < 2 * d THEN 0 ELSE 1 + Exponent(a, 2 * d)

\* The distance between a number of magnitude a/d steps and its neighbours.
Ulp(a, d) ==
  IF a < d THEN 1
  ELSE LET k == Exponent(a, d)
       IN  IF k >= MantissaBits - 1 THEN 2^(k - MantissaBits + 1) ELSE 1

\* a/m rounded to the nearest integer, ties to even (a >= 0, m > 0).
RoundHalfEven(a, m) ==
  LET q == a \div m
      r == a % m
  IN  IF 2 * r < m THEN q
      ELSE IF 2 * r > m THEN q + 1
      ELSE IF q % 2 = 0 THEN q ELSE q + 1

\* The number nearest to n/d steps (d > 0).
Round(n, d) ==
  LET a == Abs(n)
      u == Ulp(a, d)
      m == u * RoundHalfEven(a, d * u)
  IN  IF n < 0 THEN -m ELSE m

Representable(a) == Round(a, 1) = a

\* x + y, x - y, x * y, x / y of the program.
Add(x, y) == Round(x + y, 1)

Sub(x, y) == Round(x - y, 1)

Mul(x, y) == Round(x * y, 2^FracBits)

Div(x, y) == IF y < 0 THEN Round(-(x * 2^FracBits), -y) ELSE Round(x * 2^FracBits, y)

\* The largest k with k * k <= n (n >= 0).
ISqrt(n) ==
  CHOOSE k \in 0..(2^((Exponent(n + 1, 1) \div 2) + 1)) : k * k <= n /\ n < (k + 1) * (k + 1)

\* Math.sqrt(x): the number nearest to the square root.
Sqrt(x) ==
  LET n  == x * 2^FracBits
      f  == ISqrt(n)
      u  == Ulp(f, 1)
      lo == u * (f \div u)
      mid2 == (2 * lo + u) * (2 * lo + u)
  IN  IF lo * lo = n THEN lo
      ELSE IF 4 * n < mid2 THEN lo
      ELSE IF 4 * n > mid2 THEN lo + u
      ELSE IF (lo \div u) % 2 = 0 THEN lo ELSE lo + u

\* ---------------------------------------------- CoordinateTransformer ----
\* The display scales of the geometry specifications: 0.5, 1, 1.5, 2 and 3.
ScaleValues == { Num(1) \div 2, Num(1), Num(3) \div 2, Num(2), Num(3) }

\* Screen coordinates: whole and half pixels.
Coords == { c \in { (Num(1) \div 2) * h : h \in 0..(2 * MaxCoord) } : Representable(c) }

\* Faulty variant: the origin of the page container is not subtracted.
ScreenToPdf_NoOrigin(point, rect, scale) ==
  [x |-> Div(point.x, scale), y |-> Div(point.y, scale)]

\* screenToPdf(event, pageNumber) / CoreViewer.screenToPdfCoords
ScreenToPdf(point, rect, scale) ==
  [x |-> Div(Sub(point.x, rect.left), scale),
   y |-> Div(Sub(point.y, rect.top), scale)]

\* pdfToScreen(x, y, pageNumber) / CoreViewer.pdfToScreenCoords
PdfToScreen(point, rect, scale) ==
  [x |-> Add(Mul(point.x, scale), rect.left),
   y |-> Add(Mul(point.y, scale), rect.top)]

\* A page container at some origin, a scale and a point; no call made yet.
InitPoint ==
  /\ loadState = "new"
  /\ pdfDocument = FALSE
  /\ pageCount = 0
  /\ pages = << >>
  /\ displayScale = 1
  /\ scrollDirection = "down"
  /\ viewport = <<1, 1>>
  /\ renders = << >>
  /\ microtasks = 0
  /\ spinning = FALSE
  /\ idleTimeout = "none"
  /\ events = 0
  /\ renderLog = << >>
  /\ picked = << >>
  /\ docs = << >>
  /\ FindConstructed
  /\ BusConstructed
  /\ NoSpan
  /\ ManagerConstructed
  /\ \E l \in Coords, t \in {0, Num(1)} :
       pageRect = [left |-> l, top |-> t, right |-> l + Num(MaxCoord),
                   bottom |-> t + Num(MaxCoord)]
  /\ viewScale \in ScaleValues
  /\ \E x \in Coords, y \in {0, Num(1)} : args = << [x |-> x, y |-> y] >>
  /\ results = << >>

\* The point at hand: the original one, or the one the latest call returned.
PointAtHand == IF results = << >> THEN args[1] ELSE results[Len(results)]

CallScreenToPdf ==
  /\ Len(results) < 2
  /\ results # << >> => results[1].call = "pdfToScreen"
  /\ results' = Append(results, [call |-> "screenToPdf"]
                                 @@ ScreenToPdf(PointAtHand, pageRect, viewScale))
  /\ UNCHANGED <<rvars, gvars, fvars, bvars, hvars, avars, pageRect, viewScale, args>>

CallPdfToScreen ==
  /\ Len(results) < 2
  /\ results # << >> => results[1].call = "screenToPdf"
  /\ results' = Append(results, [call |-> "pdfToScreen"]
                                 @@ PdfToScreen(PointAtHand, pageRect, viewScale))
  /\ UNCHANGED <<rvars, gvars, fvars, bvars, hvars, avars, pageRect, viewScale, args>>

NextPoint ==
  \/ CallScreenToPdf
  \/ CallPdfToScreen

SpecPoint == InitPoint /\ [][NextPoint]_vars

\* ------------------------------------------- selectionRectsToQuads ----
\* The merge rule of _mergeOverlappingRects for rect and an entry of result.
ShouldMerge(rect, existing) ==
  LET verticalOverlap   == rect.top < existing.bottom /\ rect.bottom > existing.top
      horizontalOverlap == rect.left < existing.right /\ rect.right > existing.left
      sameLine == /\ Abs(Sub(rect.top, existing.top)) < Num(3)
                  /\ Abs(Sub(rect.bottom, existing.bottom)) < Num(3)
      horizontallyAdjacent == \/ Abs(Sub(rect.left, existing.right)) < Num(2)
                              \/ Abs(Sub(existing.left, rect.right)) < Num(2)
  IN  (verticalOverlap /\ horizontalOverlap) \/ (sameLine /\ horizontallyAdjacent)

\* Faulty variant: the entry of result stays as it is.
Encompass_KeepsExisting(existing, rect) == existing

\* The rect that encompasses both.
Encompass(existing, rect) ==
  [left |-> Min(existing.left, rect.left), right |-> Max(existing.right, rect.right),
   top |-> Min(existing.top, rect.top), bottom |-> Max(existing.bottom, rect.bottom)]

\* One run of the for loop over working: [result, merged].
RECURSIVE MergePass(_, _, _)
MergePass(working, result, merged) ==
  IF working = << >> THEN [result |-> result, merged |-> merged]
  ELSE LET rect == working[1]
           hits == { i \in 1..Len(result) : ShouldMerge(rect, result[i]) }
       IN  IF hits = {}
           THEN MergePass(Tail(working), Append(result, rect), merged)
           ELSE LET i == CHOOSE h \in hits : \A g \in hits : h <= g
                IN  MergePass(Tail(working),
                              [result EXCEPT ![i] = Encompass(result[i], rect)], TRUE)

\* Faulty variant: one pass over the rects only.
MergeOverlappingRects_OnePass(rects) == MergePass(rects, << >>, FALSE).result

\* _mergeOverlappingRects(rects): passes until one merges nothing.
RECURSIVE MergeOverlappingRects(_)
MergeOverlappingRects(rects) ==
  LET pass == MergePass(rects, << >>, FALSE)
  IN  IF pass.merged THEN MergeOverlappingRects(pass.result) ELSE pass.result

\* The quad of a merged rect.
RectToQuad(rect) ==
  [p1 |-> [x |-> rect.left, y |-> rect.top],
   p2 |-> [x |-> rect.right, y |-> rect.top],
   p3 |-> [x |-> rect.left, y |-> rect.bottom],
   p4 |-> [x |-> rect.right, y |-> rect.bottom]]

\* selectionRectsToQuads(rects, pageNumber) for a page container at pageRect.
SelectionRectsToQuads(rects, rect0, scale) ==
  LET minSize == Num(1)
      OnScreen(rect) ==
        /\ ~(Sub(rect.right, rect.left) < Num(1) \/ Sub(rect.bottom, rect.top) < Num(1))
        /\ ~(rect.right < rect0.left \/ rect.left > rect0.right)
        /\ ~(rect.bottom < rect0.top \/ rect.top > rect0.bottom)
      ToPdf(rect) ==
        [left |-> Div(Sub(rect.left, rect0.left), scale),
         right |-> Div(Sub(rect.right, rect0.left), scale),
         top |-> Div(Sub(rect.top, rect0.top), scale),
         bottom |-> Div(Sub(rect.bottom, rect0.top), scale)]
      Real(rect) ==
        /\ ~(Sub(rect.right, rect.left) < minSize \/ Sub(rect.bottom, rect.top) < minSize)
        /\ ~(rect.left < minSize /\ rect.top < minSize)
      kept      == SelectSeq(rects, OnScreen)
      converted == [i \in 1..Len(kept) |-> ToPdf(kept[i])]
      rectArray == SelectSeq(converted, Real)
      mergedRects == MergeOverlappingRects(rectArray)
  IN  [i \in 1..Len(mergedRects) |-> RectToQuad(mergedRects[i])]

\* The screen rects of quads on the page at a scale (what the browser lays
\* out for them).
QuadsToScreenRects(quads, rect0, scale) ==
  [i \in 1..Len(quads) |->
     [left |-> PdfToScreen(quads[i].p1, rect0, scale).x,
      top |-> PdfToScreen(quads[i].p1, rect0, scale).y,
      right |-> PdfToScreen(quads[i].p4, rect0, scale).x,
      bottom |-> PdfToScreen(quads[i].p4, rect0, scale).y]]

\* The rectangles in document units that screen rects show at a scale.
DocumentRects(rects, rect0, scale) ==
  [i \in 1..Len(rects) |->
     [left |-> ScreenToPdf([x |-> rects[i].left, y |-> rects[i].top], rect0, scale).x,
      top |-> ScreenToPdf([x |-> rects[i].left, y |-> rects[i].top], rect0, scale).y,
      right |-> ScreenToPdf([x |-> rects[i].right, y |-> rects[i].bottom], rect0, scale).x,
      bottom |-> ScreenToPdf([x |-> rects[i].right, y |-> rects[i].bottom], rect0, scale).y]]

\* The same document rectangles as screen rects at another scale.
RescaledRects(rects, rect0, scale, newScale) ==
  LET doc == DocumentRects(rects, rect0, scale)
  IN  [i \in 1..Len(doc) |->
         [left |-> PdfToScreen([x |-> doc[i].left, y |-> doc[i].top], rect0, newScale).x,
          top |-> PdfToScreen([x |-> doc[i].left, y |-> doc[i].top], rect0, newScale).y,
          right |-> PdfToScreen([x |-> doc[i].right, y |-> doc[i].bottom], rect0, newScale).x,
          bottom |-> PdfToScreen([x |-> doc[i].right, y |-> doc[i].bottom], rect0, newScale).y]]

\* Client rects of a selection: whole pixels, not empty.
ScreenRects ==
  { rect \in { [left |-> Num(l), right |-> Num(r), top |-> Num(t), bottom |-> Num(b)] :
                 l \in 0..RectCoord, r \in 0..RectCoord,
                 t \in 0..RectCoord, b \in 0..RectCoord } :
      rect.left < rect.right /\ rect.top < rect.bottom }

\* A selection of one rect or of two.
RectLists ==
  { << rect >> : rect \in ScreenRects }
    \cup { << rect, other >> : rect \in ScreenRects, other \in ScreenRects }

\* The bounding client rect of the container of a page that is 2 * RectCoord
\* document units wide and high, with its corner at (o, o), at a scale.
PageRectAt(o, scale) ==
  [left |-> o, top |-> o, right |-> Add(o, Mul(Num(2 * RectCoord), scale)),
   bottom |-> Add(o, Mul(Num(2 * RectCoord), scale))]

\* A page container, a scale and the client rects of a selection.
InitRects ==
  /\ loadState = "new"
  /\ pdfDocument = FALSE
  /\ pageCount = 0
  /\ pages = << >>
  /\ displayScale = 1
  /\ scrollDirection = "down"
  /\ viewport = <<1, 1>>
  /\ renders = << >>
  /\ microtasks = 0
  /\ spinning = FALSE
  /\ idleTimeout = "none"
  /\ events = 0
  /\ renderLog = << >>
  /\ picked = << >>
  /\ docs = << >>
  /\ FindConstructed
  /\ BusConstructed
  /\ NoSpan
  /\ ManagerConstructed
  /\ viewScale \in ScaleValues
  /\ \E o \in {0, Num(1)} : pageRect = PageRectAt(o, viewScale)
  /\ \E rects \in RectLists : args = << [how |-> "selected", rects |-> rects] >>
  /\ results = << >>

\* selectionRectsToQuads is called with the rects at hand.
CallSelectionRectsToQuads ==
  /\ Len(results) < Len(args)
  /\ results' = Append(results,
                       SelectionRectsToQuads(args[Len(args)].rects, pageRect, viewScale))
  /\ UNCHANGED <<rvars, gvars, fvars, bvars, hvars, avars, pageRect, viewScale, args>>

\* The quads returned are laid out on the same page at the same scale, and
\* their rects are at hand next.
ReselectQuads ==
  /\ Len(args) = 1
  /\ Len(results) = 1
  /\ args' = Append(args, [how |-> "reselected",
                           rects |-> QuadsToScreenRects(results[1], pageRect, viewScale)])
  /\ UNCHANGED <<rvars, gvars, fvars, bvars, hvars, avars, pageRect, viewScale, results>>

\* The scale changes, and the same document rectangles are at hand as
\* screen rects of the new scale.
Rescale(newScale) ==
  /\ Len(args) = 1
  /\ Len(results) = 1
  /\ newScale # viewScale
  /\ LET rects == RescaledRects(args[1].rects, pageRect, viewScale, newScale)
     IN  /\ DocumentRects(rects, PageRectAt(pageRect.left, newScale), newScale)
              = DocumentRects(args[1].rects, pageRect, viewScale)
         /\ args' = Append(args, [how |-> "rescaled", rects |-> rects])
  /\ viewScale' = newScale
  /\ pageRect' = PageRectAt(pageRect.left, newScale)
  /\ UNCHANGED <<rvars, gvars, fvars, bvars, hvars, avars, results>>

NextRects ==
  \/ CallSelectionRectsToQuads
  \/ ReselectQuads
  \/ \E newScale \in ScaleValues : Rescale(newScale)

SpecRects == InitRects /\ [][NextRects]_vars

\* --------------------------------------------- _mergeOverlappingRects ----
\* Rects in document units: three lines, the first two within the line
\* tolerance of each other, the third overlapping the second vertically.
RectsToMerge ==
  { [left |-> Num(l), right |-> Num(r), top |-> Num(line[1]), bottom |-> Num(line[2])] :
      l \in 0..MergeCoord, r \in 0..MergeCoord, line \in { <<0, 1>>, <<2, 3>>, <<2, 6>> } }

\* Lists of up to three rects of positive width.
ListsToMerge ==
  LET R == { rect \in RectsToMerge : rect.left < rect.right }
  IN  { << >> } \cup { << a >> : a \in R } \cup { << a, b >> : a \in R, b \in R }
        \cup { << a, b, c >> : a \in R, b \in R, c \in R }

InitMerge ==
  /\ loadState = "new"
  /\ pdfDocument = FALSE
  /\ pageCount = 0
  /\ pages = << >>
  /\ displayScale = 1
  /\ scrollDirection = "down"
  /\ viewport = <<1, 1>>
  /\ renders = << >>
  /\ microtasks = 0
  /\ spinning = FALSE
  /\ idleTimeout = "none"
  /\ events = 0
  /\ renderLog = << >>
  /\ picked = << >>
  /\ docs = << >>
  /\ FindConstructed
  /\ BusConstructed
  /\ NoSpan
  /\ ManagerConstructed
  /\ pageRect = << >>
  /\ viewScale = 0
  /\ \E rects \in ListsToMerge : args = << rects >>
  /\ results = << >>

CallMergeOverlappingRects ==
  /\ results = << >>
  /\ results' = << MergeOverlappingRects(args[1]) >>
  /\ UNCHANGED <<rvars, gvars, fvars, bvars, hvars, avars, pageRect, viewScale, args>>

NextMerge == CallMergeOverlappingRects

SpecMerge == InitMerge /\ [][NextMerge]_vars

\* ---------------------------------------------- strokesPathToQuads ----
\* The quad of the segment from points[i - 1] to points[i], << >> if the
\* segment has no length.
SegmentQuad(from, to, halfThickness, rect0, scale) ==
  LET p1 == [x |-> Div(Sub(from.x, rect0.left), scale),
             y |-> Div(Sub(from.y, rect0.top), scale)]
      p2 == [x |-> Div(Sub(to.x, rect0.left), scale),
             y |-> Div(Sub(to.y, rect0.top), scale)]
      dx == Sub(p2.x, p1.x)
      dy == Sub(p2.y, p1.y)
      len == Sqrt(Add(Mul(dx, dx), Mul(dy, dy)))
      nx == Mul(Div(-dy, len), halfThickness)
      ny == Mul(Div(dx, len), halfThickness)
  IN  IF len = 0 THEN << >>
      ELSE << [p1 |-> [x |-> Sub(p1.x, nx), y |-> Sub(p1.y, ny)],
               p2 |-> [x |-> Add(p1.x, nx), y |-> Add(p1.y, ny)],
               p3 |-> [x |-> Sub(p2.x, nx), y |-> Sub(p2.y, ny)],
               p4 |-> [x |-> Add(p2.x, nx), y |-> Add(p2.y, ny)]] >>

\* The loop of strokesPathToQuads from index i on.
RECURSIVE StrokeQuadsFrom(_, _, _, _, _)
StrokeQuadsFrom(points, i, halfThickness, rect0, scale) ==
  IF i > Len(points) THEN << >>
  ELSE SegmentQuad(points[i - 1], points[i], halfThickness, rect0, scale)
       \o StrokeQuadsFrom(points, i + 1, halfThickness, rect0, scale)

\* Faulty variant: the whole thickness is taken for the half.
HalfThickness_Whole(thickness, scale) == Div(thickness, scale)

\* halfThickness of strokesPathToQuads.
HalfThickness(thickness, scale) == Div(Div(thickness, Num(2)), scale)

\* strokesPathToQuads(points, thickness, pageNumber)
StrokesPathToQuads(points, thickness, rect0, scale) ==
  StrokeQuadsFrom(points, 2, HalfThickness(thickness, scale), rect0, scale)

\* Screen positions of the points of a stroke: 8 pixels apart, on two rows.
StrokePoints == { [x |-> Num(8 * x), y |-> Num(8 * y)] : x \in 0..StrokeCoord, y \in {0, 1} }

\* Strokes of two points and of three.
Strokes ==
  { << a, b >> : a \in StrokePoints, b \in StrokePoints }
    \cup { << a, b, c >> : a \in StrokePoints, b \in StrokePoints, c \in StrokePoints }

\* A page container, a scale, a stroke and its thickness.
InitStroke ==
  /\ loadState = "new"
  /\ pdfDocument = FALSE
  /\ pageCount = 0
  /\ pages = << >>
  /\ displayScale = 1
  /\ scrollDirection = "down"
  /\ viewport = <<1, 1>>
  /\ renders = << >>
  /\ microtasks = 0
  /\ spinning = FALSE
  /\ idleTimeout = "none"
  /\ events = 0
  /\ renderLog = << >>
  /\ picked = << >>
  /\ docs = << >>
  /\ FindConstructed
  /\ BusConstructed
  /\ NoSpan
  /\ ManagerConstructed
  /\ viewScale \in ScaleValues
  /\ \E o \in {0, Num(1)} : pageRect = PageRectAt(o, viewScale)
  /\ \E points \in Strokes, thickness \in {Num(8), Num(16)} :
       args = << [points |-> points, thickness |-> thickness] >>
  /\ results = << >>

CallStrokesPathToQuads ==
  /\ results = << >>
  /\ results' = << StrokesPathToQuads(args[1].points, args[1].thickness, pageRect,
                                      viewScale) >>
  /\ UNCHANGED <<rvars, gvars, fvars, bvars, hvars, avars, pageRect, viewScale, args>>

NextStroke == CallStrokesPathToQuads

SpecStroke == InitStroke /\ [][NextStroke]_vars

\* ------------------------------------------------ _wrapTextInHighlight ----
\* Longest text of a span.
MaxSpanText == 4

\* The characters of the text items.
SpanChars == { "a", "b" }

TextNode(text) == [nodeType |-> "TEXT_NODE", textContent |-> text]

HighlightSpan(text) == [nodeType |-> "ELEMENT_NODE", textContent |-> text]

\* The fragment that replaces a text node at nodeStart, or the node itself.
WrapTextNode(node, nodeStart, start, end) ==
  LET nodeText == node.textContent
      nodeEnd == nodeStart + Len(nodeText)
      highlightStart == Max(0, start - nodeStart)
      highlightEnd == Min(Len(nodeText), end - nodeStart)
      before == SubSeq(nodeText, 1, highlightStart)
      matched == SubSeq(nodeText, highlightStart + 1, highlightEnd)
      after == SubSeq(nodeText, highlightEnd + 1, Len(nodeText))
  IN  IF nodeEnd > start /\ nodeStart < end /\ highlightStart < highlightEnd
      THEN (IF before # << >> THEN << TextNode(before) >> ELSE << >>)
             \o << HighlightSpan(matched) >>
             \o (IF after # << >> THEN << TextNode(after) >> ELSE << >>)
      ELSE << node >>

\* Faulty variant: the characters of a highlight are not counted.
AfterElement_NotCounted(charOffset, node) == charOffset

\* charOffset after an element node.
AfterElement(charOffset, node) == charOffset + Len(node.textContent)

\* The loop over Array.from(span.childNodes) from charOffset on.
RECURSIVE WrapNodes(_, _, _, _)
WrapNodes(nodes, charOffset, start, end) ==
  IF nodes = << >> THEN << >>
  ELSE LET node == Head(nodes)
       IN  IF node.nodeType = "TEXT_NODE"
           THEN WrapTextNode(node, charOffset, start, end)
                  \o WrapNodes(Tail(nodes), charOffset + Len(node.textContent), start, end)
           ELSE << node >> \o WrapNodes(Tail(nodes), AfterElement(charOffset, node), start, end)

\* The ranges [from, to) of the highlights among nodes that start at offset.
RECURSIVE HighlightRanges(_, _)
HighlightRanges(nodes, offset) ==
  IF nodes = << >> THEN {}
  ELSE (IF Head(nodes).nodeType = "ELEMENT_NODE"
        THEN { << offset, offset + Len(Head(nodes).textContent) >> } ELSE {})
         \cup HighlightRanges(Tail(nodes), offset + Len(Head(nodes).textContent))

\* The text of a span.
RECURSIVE SpanText(_)
SpanText(nodes) ==
  IF nodes = << >> THEN << >> ELSE Head(nodes).textContent \o SpanText(Tail(nodes))

\* A span of a freshly built text layer: one text node.
InitWrap ==
  /\ loadState = "new"
  /\ pdfDocument = FALSE
  /\ pageCount = 0
  /\ pages = << >>
  /\ displayScale = 1
  /\ scrollDirection = "down"
  /\ viewport = <<1, 1>>
  /\ renders = << >>
  /\ microtasks = 0
  /\ spinning = FALSE
  /\ idleTimeout = "none"
  /\ events = 0
  /\ renderLog = << >>
  /\ picked = << >>
  /\ docs = << >>
  /\ FindConstructed
  /\ listeners = << >>
  /\ dispatches = << >>
  /\ invoked = << >>
  /\ busCalls = 0
  /\ GeometryIdle
  /\ \E n \in 1..MaxSpanText : \E text \in [1..n -> SpanChars] :
       childNodes = << TextNode(text) >>
  /\ wraps = << >>
  /\ ManagerConstructed

\* _wrapTextInHighlight(span, start, end, isSelected) for the part of a match
\* that lies in the span; the matches of a query do not overlap.
WrapTextInHighlight(start, end) ==
  /\ 0 <= start /\ start < end /\ end <= Len(SpanText(childNodes))
  /\ \A i \in 1..Len(wraps) : wraps[i][2] <= start \/ end <= wraps[i][1]
  /\ childNodes' = WrapNodes(childNodes, 0, start, end)
  /\ wraps' = Append(wraps, << start, end >>)
  /\ UNCHANGED <<rvars, gvars, fvars, bvars, xvars, avars>>

NextWrap ==
  \E start \in 0..MaxSpanText, end \in 0..MaxSpanText : WrapTextInHighlight(start, end)

SpecWrap == InitWrap /\ [][NextWrap]_vars

\* ============================================================ claims ====
RunningPages == { p \in DOMAIN pages : pages[p].renderingState = RUNNING }

\* Scheduler chains in flight: each holds one RUNNING page or is queued.
ChainsInFlight == Cardinality(RunningPages) + microtasks

\* The pages the scheduler considers for <<first, last>>: the visible pages
\* and two pages on each side.
WindowPages ==
  { p \in DOMAIN pages : viewport[1] - 2 <= p /\ p <= viewport[2] + 2 }

FinishedAtScale(p) ==
  pages[p].renderingState = FINISHED /\ pages[p].renderedScale = displayScale

\* A page is unsatisfied when it is neither RUNNING nor FINISHED at the
\* current display scale.
Unsatisfied(p) ==
  /\ pages[p].renderingState # RUNNING
  /\ ~(pages[p].renderingState = FINISHED /\ pages[p].renderedScale = displayScale)

\* C1: at most one page is RUNNING at any moment.
C1_AtMostOneRunning == Cardinality(RunningPages) <= 1

\* C2: when a render fails and the scheduler still has another candidate page, the
\* chain that awaited the failed render goes on with a next render, so the
\* number of chains in flight does not drop.
C2_ChainSurvivesFailure ==
  [][ \A p \in DOMAIN pages :
        ( /\ DOMAIN pages' = DOMAIN pages
          /\ pages[p].renderingState = RUNNING
          /\ pages'[p].renderingState = INITIAL
          /\ \E q \in WindowPages' : q # p /\ Unsatisfied(q)' )
        => ChainsInFlight' >= ChainsInFlight ]_vars

IsPrefix(s, t) == Len(s) <= Len(t) /\ s = SubSeq(t, 1, Len(s))

ScenarioOrder == <<4, 5, 6, 7, 8, 3, 2>>

ScenarioRun == events = 1 /\ viewport = <<4, 6>> /\ scrollDirection = "down"

\* C3: all pages INITIAL, visible 4..6, direction down, one call: the renders
\* complete in the order 4, 5, 6, 7, 8, 3, 2, one at a time, no other page is
\* touched, and the idle timer is armed exactly when all seven are done.
C3_ScenarioOrder ==
  ScenarioRun =>
    /\ IsPrefix(renderLog, ScenarioOrder)
    /\ Cardinality(RunningPages) <= 1
    /\ \A p \in RunningPages :
         Len(renderLog) < Len(ScenarioOrder) /\ p = ScenarioOrder[Len(renderLog) + 1]
    /\ \A p \in DOMAIN pages :
         pages[p].renderingState = FINISHED <=>
           \E i \in 1..Len(renderLog) : renderLog[i] = p
    /\ (idleTimeout # "none") <=>
         (renderLog = ScenarioOrder /\ RunningPages = {} /\ microtasks = 0)

C3_Witness ==
  ScenarioRun /\ idleTimeout = "fired" /\ renderLog = ScenarioOrder

SetMin(S) == CHOOSE x \in S : \A y \in S : x <= y
SetMax(S) == CHOOSE x \in S : \A y \in S : x >= y

ExpectedPick ==
  LET first == viewport[1]
      last == viewport[2]
      visible == { p \in first..last : Unsatisfied(p) }
      after == { p \in {last + 1, last + 2} : p <= pageCount /\ Unsatisfied(p) }
      before == { p \in {first - 1, first - 2} : p >= 1 /\ Unsatisfied(p) }
  IN  IF visible # {}
      THEN IF scrollDirection = "down" THEN SetMin(visible) ELSE SetMax(visible)
      ELSE IF after # {} THEN SetMin(after)
      ELSE IF before # {} THEN SetMax(before)
      ELSE NullPage

\* C4: _getHighestPriorityPage returns the first unsatisfied visible page in
\* scroll order, else the nearest unsatisfied of the two pages after the
\* range, else the nearest unsatisfied of the two pages before it, else null.
C4_HighestPriorityPage == picked # << >> => picked[1] = ExpectedPick

C4_Witness ==
  /\ picked # << >>
  /\ viewport[1] >= 3
  /\ picked[1] = viewport[1] - 2
  /\ \A p \in WindowPages : p # picked[1] => ~Unsatisfied(p)
  /\ \E p \in WindowPages : pages[p].renderingState = RUNNING
  /\ viewport[2] + 2 <= pageCount

WindowFinished == \A p \in WindowPages : FinishedAtScale(p)

\* C5: once the document is loaded and the host's events have stopped, every
\* page of the visible range and of its two-page margins ends up FINISHED at
\* the display scale, with the idle callback fired.
C5_EventuallyRenderedAndIdle ==
  [](loadState = "loaded" =>
       <>[](WindowFinished /\ RunningPages = {} /\ idleTimeout = "fired"))

C5_Witness ==
  /\ loadState = "loaded"
  /\ events = LiveEvents
  /\ displayScale # 1
  /\ WindowFinished
  /\ idleTimeout = "fired"

\* C6: a render that read scale s and completes when the display scale is
\* another one completes as FINISHED with renderedScale = s, and a page left
\* FINISHED at a scale that is not displayed, while it is visible, is selected
\* again (or scrolled out of view): it never stays the final state of the page.
C6_StaleRenderRedone ==
  /\ [][ \A p \in DOMAIN renders :
           ( /\ DOMAIN pages' = DOMAIN pages
             /\ renders[p].pc = "draw"
             /\ renders[p].scale # displayScale
             /\ pages'[p].renderingState = FINISHED )
           => ( /\ pages'[p].renderedScale = renders[p].scale
                /\ microtasks' = microtasks + 1 ) ]_vars
  /\ \A p \in 1..MaxPages :
       []( ( /\ p \in DOMAIN pages
             /\ pages[p].renderingState = FINISHED
             /\ pages[p].renderedScale # displayScale
             /\ p \in viewport[1]..viewport[2] )
           => <>( \/ p \notin DOMAIN pages
                  \/ p \notin viewport[1]..viewport[2]
                  \/ pages[p].renderingState # FINISHED
                  \/ pages[p].renderedScale = displayScale ) )

\* C7 as stated: a setScale that changes the scale leaves every page record
\* as it was.
C7_SetScaleChangesScaleOnly ==
  [][ displayScale' # displayScale => pages' = pages ]_vars

\* C7 amended: a setScale that changes the scale keeps every page's
\* renderedScale, page handle and unit viewport; the only rendering state it
\* changes is that of the page its renderHighestPriority call selects, which
\* becomes RUNNING; that page is fetched only if it was never fetched, and a
\* page that is being fetched was never rendered.
C7_SetScaleFrame ==
  /\ [][ displayScale' # displayScale =>
          LET sel == GetHighestPriorityPage(pages, displayScale', pageCount,
                       GetVisiblePages(pages, viewport', scrollDirection))
          IN  /\ DOMAIN pages' = DOMAIN pages
              /\ \A p \in DOMAIN pages :
                   /\ pages'[p].renderedScale = pages[p].renderedScale
                   /\ pages'[p].page = pages[p].page
                   /\ pages'[p].unitViewport = pages[p].unitViewport
                   /\ p # sel => /\ pages'[p].renderingState = pages[p].renderingState
                                 /\ renders'[p] = renders[p]
                   /\ p = sel => /\ pages[p].renderingState # RUNNING
                                 /\ pages[p].renderedScale # displayScale'
                                    \/ pages[p].renderingState = INITIAL
                                 /\ pages'[p].renderingState = RUNNING
                                 /\ renders'[p].pc =
                                      IF pages[p].page THEN "draw" ELSE "getPage" ]_vars
  /\ [](\A p \in DOMAIN renders :
          renders[p].pc = "getPage" =>
            ~pages[p].page /\ pages[p].renderedScale = NoScale)

\* A page rendered before is being re-rendered at the new scale without a fetch.
C7_Witness ==
  \E p \in DOMAIN pages :
    /\ pages[p].renderingState = RUNNING
    /\ renders[p] = [pc |-> "draw", scale |-> displayScale]
    /\ pages[p].renderedScale \notin {NoScale, displayScale}
    /\ \E q \in DOMAIN pages : q # p /\ pages[q].renderingState = FINISHED
                                      /\ pages[q].renderedScale # displayScale

\* C8 as stated: a FINISHED page is always at the current display scale.
C8_FinishedAtCurrentScale ==
  \A p \in DOMAIN pages :
    pages[p].renderingState = FINISHED => pages[p].renderedScale = displayScale

\* The output of a render, finished or in progress, is at a scale that is
\* not the display scale.
OutOfDate(p) ==
  \/ pages[p].renderingState = FINISHED /\ pages[p].renderedScale # displayScale
  \/ renders[p].pc = "draw" /\ renders[p].scale # displayScale

\* C8 amended: a FINISHED page has the renderedScale its render read from
\* displayScale, and a render's scale differs from the display scale only
\* once a setScale has changed the display scale after the render read it.
C8_FinishedScaleFromRender ==
  /\ [](\A p \in DOMAIN pages :
          pages[p].renderingState = FINISHED => pages[p].renderedScale \in Scales)
  /\ [][ \A p \in DOMAIN pages :
           (DOMAIN pages' = DOMAIN pages /\ ~OutOfDate(p) /\ OutOfDate(p)')
           => displayScale' # displayScale ]_vars

C8_Witness ==
  \E p \in DOMAIN pages :
    /\ pages[p].renderingState = FINISHED
    /\ pages[p].renderedScale # displayScale
    /\ renders[p].pc = "idle"
    /\ microtasks = 0

StateChange(p) == <<pages[p].renderingState, pages'[p].renderingState>>

\* C9 as stated: a rendering state changes only INITIAL -> RUNNING,
\* RUNNING -> FINISHED or RUNNING -> INITIAL.
C9_ThreeTransitions ==
  [][ \A p \in DOMAIN pages :
        (DOMAIN pages' = DOMAIN pages /\ StateChange(p)[1] # StateChange(p)[2])
        => StateChange(p) \in {<<INITIAL, RUNNING>>, <<RUNNING, FINISHED>>,
                               <<RUNNING, INITIAL>>} ]_vars

\* C9 amended: a rendering state changes only INITIAL -> RUNNING,
\* RUNNING -> FINISHED, RUNNING -> INITIAL, or FINISHED -> RUNNING when a page
\* finished at another scale is rendered again; records are created INITIAL.
C9_PageTransitions ==
  [][ /\ \A p \in DOMAIN pages :
           (DOMAIN pages' = DOMAIN pages /\ StateChange(p)[1] # StateChange(p)[2])
           => \/ StateChange(p) \in {<<INITIAL, RUNNING>>, <<RUNNING, FINISHED>>,
                                     <<RUNNING, INITIAL>>}
              \/ /\ StateChange(p) = <<FINISHED, RUNNING>>
                 /\ pages[p].renderedScale # displayScale'
      /\ DOMAIN pages' # DOMAIN pages =>
           \A p \in DOMAIN pages' :
             pages'[p].renderingState \in {INITIAL, RUNNING}
             /\ pages'[p].renderedScale = NoScale ]_vars

\* A page that was FINISHED at another scale is RUNNING again.
C9_Witness ==
  \E p \in DOMAIN pages :
    /\ pages[p].renderingState = RUNNING
    /\ pages[p].renderedScale \in Scales
    /\ pages[p].renderedScale # displayScale
    /\ renders[p].scale = displayScale

\* C10: setDocument invalidates an extraction that is in flight for the
\* previous document: every entry of the text cache holds the text of that
\* page of the current document, and every match of the match list is a
\* piece of the current document's text on its page.
C10_StaleExtractionDiscarded ==
  findDocument # NullDocument =>
    /\ \A p \in DOMAIN pageContents :
         /\ p \in DOMAIN docs[findDocument]
         /\ pageContents[p].str = docs[findDocument][p]
    /\ \A i \in 1..Len(matches) :
         /\ matches[i].pageNumber \in DOMAIN docs[findDocument]
         /\ matches[i].text = SubSeq(docs[findDocument][matches[i].pageNumber],
                                     matches[i].startOffset + 1, matches[i].endOffset)

\* C11: at most one _extractTextLazily call is suspended at any time, and a
\* find, findNext or findPrevious call made while one is suspended leaves it
\* as it is: same order, same position, same pending fetch.
C11_SingleExtraction ==
  /\ [](Len(extractions) <= 1)
  /\ [][ (extractions # << >> /\ findCalls' # findCalls) => extractions' = extractions ]_vars

\* A find call has searched pages the running extraction had already cached.
C11_Witness ==
  /\ Len(extractions) = 1
  /\ extracting
  /\ currentMatchIndex >= 0
  /\ pageContents # << >>

\* This step calls _extractPage, that is getPage, for one more page.
FetchStarted ==
  \E t \in 1..Len(extractions') :
    /\ extractions'[t].pc = "getPage"
    /\ ~ \E u \in 1..Len(extractions) : extractions[u].fetched = extractions'[t].fetched

\* C12: from setDocument until the first find call with a non-empty query the
\* text cache is empty and no page is fetched; setDocument and find("") start
\* no extraction.
C12_LazyExtraction ==
  /\ [](~searched => pageContents = << >>)
  /\ [][ FetchStarted => searched' ]_vars
  /\ [][ (findCalls' # findCalls /\ (query' = << >> \/ ~searched'))
         => extractions' = extractions ]_vars

\* Rank of page p in the extraction order for the visible range first..last:
\* visible pages, then the pages before them, then the pages after them.
OrderRank(p, first, last) ==
  IF first <= p /\ p <= last THEN 0 ELSE IF p < first THEN 1 ELSE 2

\* Page p comes before page q in that order.
OrderedBefore(p, q, first, last) ==
  \/ OrderRank(p, first, last) < OrderRank(q, first, last)
  \/ OrderRank(p, first, last) = OrderRank(q, first, last) /\ p < q

\* The pages a task has fetched so far are the first ones of that order:
\* in order, none out of 1..numPages, none twice, none left out.
FetchedInOrder(task) ==
  LET f == task.fetched
      a == task.visible[1]
      b == task.visible[2]
  IN  /\ \A i \in 1..Len(f) : f[i] \in 1..task.numPages
      /\ \A i, j \in 1..Len(f) : i < j => OrderedBefore(f[i], f[j], a, b)
      /\ \A i \in 1..Len(f) : \A q \in 1..task.numPages :
           OrderedBefore(q, f[i], a, b) => \E j \in 1..(i - 1) : f[j] = q

\* C13: an extraction task fetches the pages visible when it started,
\* ascending, then the pages before them, ascending, then the pages after
\* them, ascending; when it ends it has fetched each page of 1..numPages once.
C13_ExtractionOrder ==
  /\ [](\A t \in 1..Len(extractions) : FetchedInOrder(extractions[t]))
  /\ [][ \A t \in 1..Len(extractions) :
           extractions' = << >> => Len(extractions[t].fetched) = extractions[t].numPages ]_vars

\* A task that started with pages before and after the visible ones has
\* fetched all of them.
C13_Witness ==
  \E t \in 1..Len(extractions) :
    /\ extractions[t].visible[1] > 1
    /\ extractions[t].visible[2] < extractions[t].numPages
    /\ extractions[t].visible[1] < extractions[t].visible[2]
    /\ Len(extractions[t].fetched) = extractions[t].numPages

\* Two characters are the same letter, in either case.
SameLetter(c, d) ==
  \/ c = d
  \/ {c, d} = {"a", "A"}
  \/ {c, d} = {"b", "B"}

\* The active query occurs in str at offset k under the active options.
OccursAt(str, k) ==
  /\ k + Len(query) <= Len(str)
  /\ \A i \in 1..Len(query) :
       IF caseSensitive THEN str[k + i] = query[i] ELSE SameLetter(str[k + i], query[i])
  /\ entireWord =>
       /\ k = 0 \/ str[k] = " "
       /\ k + Len(query) = Len(str) \/ str[k + Len(query) + 1] = " "

\* The occurrences of the active query in the cached pages, as match records.
Occurrences ==
  UNION { { [pageNumber |-> p, startOffset |-> k, endOffset |-> k + Len(query),
             text |-> SubSeq(pageContents[p].str, k + 1, k + Len(query))] :
              k \in { o \in 0..Len(pageContents[p].str) :
                        OccursAt(pageContents[p].str, o) } } :
          p \in DOMAIN pageContents }

\* C14: while a query is active the match list holds exactly the occurrences
\* of the query, under the active options, in the pages of the text cache:
\* each of them once and nothing else, also while the extraction is running.
C14_MatchesAreOccurrences ==
  query # << >> =>
    /\ { matches[i] : i \in 1..Len(matches) } = Occurrences
    /\ Len(matches) = Cardinality(Occurrences)

\* Matches that the running extraction, not a find call, put in the list.
C14_Witness ==
  /\ query # << >>
  /\ extracting
  /\ matches # << >>
  /\ currentMatchIndex = -1

\* Position a comes strictly before position b in (pageNumber, startOffset).
StrictlyBefore(a, b) ==
  a[1] < b[1] \/ (a[1] = b[1] /\ a[2] < b[2])

\* <<pageNumber, startOffset>> of each match of a list.
Positions(ms) == [i \in 1..Len(ms) |-> <<ms[i].pageNumber, ms[i].startOffset>>]

\* The matches of the ordering example, in the order they are inserted.
ExampleMatches ==
  << [pageNumber |-> 2, startOffset |-> 10, endOffset |-> 11, text |-> <<"a">>],
     [pageNumber |-> 1, startOffset |-> 5, endOffset |-> 6, text |-> <<"a">>],
     [pageNumber |-> 1, startOffset |-> 20, endOffset |-> 21, text |-> <<"a">>] >>

\* C15: after every find call and every extraction step the match list is
\* strictly ascending in (pageNumber, startOffset), whatever order the pages
\* were extracted in; matches inserted as (2,10),(1,5),(1,20) are ordered
\* (1,5),(1,20),(2,10).
C15_MatchesSorted ==
  /\ \A i \in 1..(Len(matches) - 1) :
       StrictlyBefore(Positions(matches)[i], Positions(matches)[i + 1])
  /\ Positions(SortMatchesAndFixIndex(ExampleMatches, -1).matches)
       = << <<1, 5>>, <<1, 20>>, <<2, 10>> >>

\* A page was extracted after a later page, and both have matches in the list.
C15_Witness ==
  \E t \in 1..Len(extractions) :
    \E i, j \in 1..Len(extractions[t].fetched) :
      /\ i < j
      /\ extractions[t].fetched[j] < extractions[t].fetched[i]
      /\ extractions[t].fetched[j] \in DOMAIN pageContents
      /\ \E m, n \in 1..Len(matches) :
           /\ matches[m].pageNumber = extractions[t].fetched[j]
           /\ matches[n].pageNumber = extractions[t].fetched[i]

\* An extraction step put the matches of a newly extracted page in the list.
MatchesInserted ==
  /\ findCalls' = findCalls
  /\ Len(matches') > Len(matches)

\* C16: when a newly extracted page inserts matches into the list, the match
\* that was current before is the current match afterwards, with
\* currentMatchIndex at its new position in the sorted list.
C16_CurrentMatchStable ==
  [][ (MatchesInserted /\ currentMatchIndex >= 0) =>
        /\ currentMatchIndex' \in 0..(Len(matches') - 1)
        /\ matches'[currentMatchIndex' + 1] = matches[currentMatchIndex + 1] ]_vars

\* The second call selected the first match of the list, and matches of a
\* page extracted later have since moved it to a higher index.
C16_Witness ==
  /\ findCalls = 3
  /\ findState = FOUND
  /\ currentMatchIndex >= 1
  /\ matches[1].pageNumber < matches[currentMatchIndex + 1].pageNumber

C18_EmptyListState ==
  \A k \in 1..Len(updates) :
    (query # << >> /\ updates[k].total = 0) =>
      /\ updates[k].extracting => updates[k].state = PENDING
      /\ (~updates[k].extracting /\ extractionComplete) => updates[k].state = NOT_FOUND

\* The pages whose fetch a task has seen fail: fetched before the page it is
\* fetching now, and not in the cache.
FailedPages(task) ==
  { task.fetched[i] : i \in 1..(Len(task.fetched) - 1) } \ DOMAIN pageContents

\* C19: when the text fetch of a page fails the page stays out of the cache
\* and the loop goes on with the next page of its order, or ends after the
\* last; pages fetched after a failure are stored and searched; a task that
\* ends has fetched every page; and a task that has seen a failure ends.
C19_FailureSkipsPage ==
  /\ [][ \A t \in 1..Len(extractions) :
           ExtractRejected(t) =>
             /\ pageContents' = pageContents
             /\ ExtractingPage(extractions[t]) \notin DOMAIN pageContents'
             /\ IF extractions[t].index < Len(extractions[t].order)
                THEN /\ Len(extractions') = Len(extractions)
                     /\ extractions'[t].pc = "getPage"
                     /\ ExtractingPage(extractions'[t])
                          = extractions[t].order[extractions[t].index + 1]
                     /\ extracting'
                ELSE /\ extractions' = << >>
                     /\ ~extracting'
                     /\ extractionComplete' ]_vars
  /\ [][ \A t \in 1..Len(extractions) :
           (ExtractTextResolved(t) /\ FailedPages(extractions[t]) # {}) =>
             /\ ExtractingPage(extractions[t]) \in DOMAIN pageContents'
             /\ { matches'[i] : i \in 1..Len(matches') } = Occurrences' ]_vars
  /\ [][ \A t \in 1..Len(extractions) :
           extractions' = << >> =>
             { extractions[t].fetched[i] : i \in 1..Len(extractions[t].fetched) }
               = 1..extractions[t].numPages ]_vars
  /\ (\E t \in 1..Len(extractions) : FailedPages(extractions[t]) # {})
       ~> (extractions = << >> /\ extractionComplete)

\* The task has ended with one page missing from the cache, the pages
\* before and after it cached and their matches in the list.
C19_Witness ==
  /\ extractionComplete
  /\ extractions = << >>
  /\ \E p \in 2..(Len(docs[findDocument]) - 1) :
       /\ DOMAIN pageContents = (1..Len(docs[findDocument])) \ {p}
       /\ \E m, n \in 1..Len(matches) :
            matches[m].pageNumber < p /\ p < matches[n].pageNumber

\* A step of setDocument.
SetDocumentStep == \E d \in DOMAIN docs : SetDocument(d)

\* C20: within one document load each page is fetched at most once and stored
\* at most once: an entry of the text cache stays as it is until the next
\* setDocument, no fetch is pending for a cached page, no task fetches a page
\* twice, and no task runs once the extraction is complete.
C20_CachedOnce ==
  /\ [][ SetDocumentStep \/
         \A p \in DOMAIN pageContents :
           p \in DOMAIN pageContents' /\ pageContents'[p] = pageContents[p] ]_vars
  /\ [](\A t \in 1..Len(extractions) :
          /\ extractions[t].pc \in {"getPage", "getTextContent"}
               => ExtractingPage(extractions[t]) \notin DOMAIN pageContents
          /\ \A i, j \in 1..Len(extractions[t].fetched) :
               extractions[t].fetched[i] = extractions[t].fetched[j] => i = j)
  /\ [](extractionComplete => extractions = << >>)
  /\ [](Len(extractions) <= 1)

\* A search made after the extraction had completed found the cache filled
\* and started no fetch.
C20_Witness ==
  /\ findState = NOT_FOUND
  /\ extractionComplete
  /\ extractions = << >>
  /\ Len(docs[findDocument]) >= 2
  /\ DOMAIN pageContents = 1..Len(docs[findDocument])

\* The registrations of an array, in its order.
Regs(eventListeners) == [i \in 1..Len(eventListeners) |-> eventListeners[i].reg]

C22_OnceCalledOnce ==
  \A i \in 1..Len(invoked) :
    invoked[i].once =>
      /\ \A j \in 1..Len(invoked) : invoked[j].reg = invoked[i].reg => j = i
      /\ \A k \in 1..Len(listeners) : listeners[k].reg # invoked[i].reg

\* Both conversions were applied to the point, one after the other.
RoundTripDone == Len(results) = 2

Tolerance(c, o) == 4 * Ulp(Abs(c) + Abs(o) + 1, 1)

QuadSet(quads) == { quads[i] : i \in 1..Len(quads) }

\* The quads were laid out again and converted again.
Reselected == Len(args) = 2 /\ args[2].how = "reselected" /\ Len(results) = 2

\* C24: selectionRectsToQuads applied to the screen rects of the quads it
\* returned, for the same page and scale, returns the same set of quads.
C24_Idempotent ==
  Reselected =>
    /\ QuadSet(results[2]) = QuadSet(results[1])
    /\ Len(results[2]) = Len(results[1])

\* The document rectangles were laid out at another scale and converted.
Rescaled == Len(args) = 2 /\ args[2].how = "rescaled" /\ Len(results) = 2

\* C26: the same rectangles in document units, given as screen rects at two
\* display scales, produce the same quads in document units.
C26_ScaleIndependent ==
  Rescaled => results[2] = results[1]

\* The corners of a quad.
Corners(quad) == { quad.p1, quad.p2, quad.p3, quad.p4 }

\* A quad whose sides are parallel to the axes: top-left, top-right,
\* bottom-left and bottom-right are the corners of its bounding box.
AxisParallel(quad) ==
  /\ Cardinality({ c.x : c \in Corners(quad) }) <= 2
  /\ Cardinality({ c.y : c \in Corners(quad) }) <= 2

\* p1 = top-left, p2 = top-right, p3 = bottom-left, p4 = bottom-right
\* (y grows downwards).
WindingOrder(quad) ==
  /\ quad.p1.y = quad.p2.y /\ quad.p3.y = quad.p4.y /\ quad.p1.y <= quad.p3.y
  /\ quad.p1.x = quad.p3.x /\ quad.p2.x = quad.p4.x /\ quad.p1.x <= quad.p2.x

\* C25: every quad the geometry engine produces, from selection rects and
\* from strokes alike, has its points in the order top-left, top-right,
\* bottom-left, bottom-right.
C25_WindingOrder ==
  \A i \in 1..Len(results) : \A j \in 1..Len(results[i]) :
    AxisParallel(results[i][j]) => WindingOrder(results[i][j])

\* C27: once load has failed, at either of its steps, the viewer holds no
\* pdfDocument and no pageCount of the failed load, and no scroll, resize or
\* setScale event that follows starts any rendering.
C27_FailedLoadLeavesNothing ==
  loadState = "failed" =>
    /\ ~pdfDocument
    /\ pageCount = 0
    /\ renders = << >>
    /\ ~spinning
    /\ microtasks = 0

\* Two rects share vertical and horizontal space.
OverlapBothAxes(a, b) ==
  /\ a.left < b.right /\ b.left < a.right
  /\ a.top < b.bottom /\ b.top < a.bottom

\* Tops within 3 units and bottoms within 3 units.
OnSameLine(a, b) ==
  /\ a.top - b.top < Num(3) /\ b.top - a.top < Num(3)
  /\ a.bottom - b.bottom < Num(3) /\ b.bottom - a.bottom < Num(3)

\* The distance between the facing vertical edges of two rects.
EdgeGaps(a, b) == { Abs(b.left - a.right), Abs(a.left - b.right) }

\* C28: the list returned by _mergeOverlappingRects is a fixed point of the
\* merge rule: no two of its rects overlap on both axes, and no two lie on
\* the same line with a horizontal gap below 2 units.
C28_MergeFixedPoint ==
  results # << >> =>
    \A i \in 1..Len(results[1]) : \A j \in 1..Len(results[1]) :
      i # j =>
        /\ ~OverlapBothAxes(results[1][i], results[1][j])
        /\ ~(/\ OnSameLine(results[1][i], results[1][j])
             /\ \E gap \in EdgeGaps(results[1][i], results[1][j]) : gap < Num(2))

\* Three rects were merged into one although the first and the second do not
\* meet the rule: the third bridged them, which only a second pass can see.
C28_Witness ==
  /\ results # << >>
  /\ Len(args[1]) = 3
  /\ Len(results[1]) = 1
  /\ ~OverlapBothAxes(args[1][1], args[1][2])
  /\ ~OnSameLine(args[1][1], args[1][2])
  /\ args[1][1].right < args[1][2].left

\* The segments of a stroke whose two points are at distinct positions: the
\* indices of their second points, in point order.
RealSegments(points) ==
  SelectSeq([i \in 1..(Len(points) - 1) |-> i + 1],
            LAMBDA i : points[i] # points[i - 1])

\* The rounding of two coordinates of the size of a quad's largest one.
Rounding(quad) ==
  LET size == CHOOSE m \in { Abs(c.x) : c \in Corners(quad) } \cup { Abs(c.y) : c \in Corners(quad) } :
                \A c \in Corners(quad) : Abs(c.x) <= m /\ Abs(c.y) <= m
  IN  2 * Ulp(size + 1, 1)

\* quad is the segment from a to b (document units) widened to a thickness
\* (screen pixels) at a scale: p1/p2 lie about a and p3/p4 about b, both
\* pairs apart by the same offset, which is perpendicular to the segment (to
\* its left-hand side for p1 and p3) and thickness / scale long, both within
\* an eighth.
WidenedSegment(quad, a, b, thickness, scale) ==
  LET wx == quad.p2.x - quad.p1.x
      wy == quad.p2.y - quad.p1.y
      dx == b.x - a.x
      dy == b.y - a.y
      dot == dx * wx + dy * wy
      ww == wx * wx + wy * wy
      dd == dx * dx + dy * dy
      eps == Rounding(quad)
  IN  /\ Abs(quad.p1.x + quad.p2.x - 2 * a.x) <= eps /\ Abs(quad.p1.y + quad.p2.y - 2 * a.y) <= eps
      /\ Abs(quad.p3.x + quad.p4.x - 2 * b.x) <= eps /\ Abs(quad.p3.y + quad.p4.y - 2 * b.y) <= eps
      /\ Abs(quad.p4.x - quad.p3.x - wx) <= eps /\ Abs(quad.p4.y - quad.p3.y - wy) <= eps
      /\ dx * wy - dy * wx > 0
      /\ 8 * Abs(dot) <= ISqrt(dd) * ISqrt(ww)
      /\ 8 * Abs(ISqrt(ww) * scale - thickness * Num(1)) <= thickness * Num(1)

\* C29: strokesPathToQuads returns one quad per pair of consecutive points at
\* distinct positions, in point order, whose corners are the segment's
\* endpoints in document units offset to both sides by the perpendicular of
\* length thickness / 2 in document units; a segment without length gives no
\* quad.  The stroke (0,0)-(10,0) of thickness 10 at scale 1 gives the
\* corners (0,-5), (0,5), (10,-5), (10,5).
C29_StrokeQuads ==
  /\ StrokesPathToQuads(<< [x |-> 0, y |-> 0], [x |-> Num(10), y |-> 0] >>, Num(10),
                        [left |-> 0, top |-> 0], Num(1))
       = << [p1 |-> [x |-> 0, y |-> -Num(5)], p2 |-> [x |-> 0, y |-> Num(5)],
             p3 |-> [x |-> Num(10), y |-> -Num(5)], p4 |-> [x |-> Num(10), y |-> Num(5)]] >>
  /\ results # << >> =>
       LET points == args[1].points
           segs == RealSegments(points)
       IN  /\ Len(results[1]) = Len(segs)
           /\ \A k \in 1..Len(segs) :
                WidenedSegment(results[1][k],
                               ScreenToPdf(points[segs[k] - 1], pageRect, viewScale),
                               ScreenToPdf(points[segs[k]], pageRect, viewScale),
                               args[1].thickness, viewScale)

\* A stroke of three points, two of them at one position: one quad, of a
\* slanted segment.
C29_Witness ==
  /\ results # << >>
  /\ Len(args[1].points) = 3
  /\ Len(results[1]) = 1
  /\ ~AxisParallel(results[1][1])

\* C30: a call of _wrapTextInHighlight for a range that overlaps no earlier
\* one leaves the text of the span as it was, keeps every earlier highlight
\* with its characters, and highlights exactly the characters of [start, end)
\* in addition.
C30_WrapPreservesSpan ==
  [][ /\ SpanText(childNodes') = SpanText(childNodes)
      /\ HighlightRanges(childNodes', 0)
           = HighlightRanges(childNodes, 0) \cup { wraps'[Len(wraps')] } ]_vars

\* A highlight was put between two earlier ones.
C30_Witness ==
  /\ Len(wraps) = 3
  /\ wraps[1][2] <= wraps[3][1]
  /\ wraps[3][2] <= wraps[2][1]
  /\ Len(childNodes) >= 4

\* A step of find, findNext or findPrevious with the empty query.
FindEmptyStep == findCalls' # findCalls /\ query' = << >> /\ ~SetDocumentStep

\* C31: find("") empties the match list, sets currentMatchIndex to -1 and the
\* state to PENDING, notifies once with current 0 and total 0, and leaves
\* the text cache and a running extraction as they are.
C31_FindEmptyResets ==
  [][ FindEmptyStep =>
        /\ matches' = << >>
        /\ currentMatchIndex' = -1
        /\ findState' = PENDING
        /\ Len(updates') = 1
        /\ updates'[1].state = PENDING /\ updates'[1].current = 0 /\ updates'[1].total = 0
        /\ pageContents' = pageContents
        /\ extractions' = extractions
        /\ extracting' = extracting
        /\ extractionComplete' = extractionComplete ]_vars

\* find("") was called while an extraction was running with pages cached.
C31_Witness ==
  /\ query = << >>
  /\ searched
  /\ extracting
  /\ Len(extractions) = 1
  /\ DOMAIN pageContents # {}
  /\ Len(updates) = 1 /\ updates[1].total = 0 /\ updates[1].state = PENDING

\* A step of find, findNext or findPrevious with a non-empty query.
FindStep == findCalls' # findCalls /\ query' # << >> /\ ~SetDocumentStep

\* The query, caseSensitive and entireWord of this call are those of the
\* previous call (an omitted option counts as false).
SameSearch ==
  query' = query /\ caseSensitive' = caseSensitive /\ entireWord' = entireWord

\* C32: a find call whose query, caseSensitive and entireWord are those of the
\* previous call keeps the match list and moves the current index by one (with
\* wrap-around), also when an option is omitted and its stored value is
\* false; a call in which one of them differs searches the cached pages anew
\* and selects the first match.
C32_NewSearchIffChanged ==
  [][ FindStep =>
        IF SameSearch
        THEN /\ matches' = matches
             /\ Len(matches) > 0 =>
                  currentMatchIndex' \in { (currentMatchIndex + 1) % Len(matches),
                                           (currentMatchIndex + Len(matches) - 1) % Len(matches),
                                           IF currentMatchIndex = -1 THEN Len(matches) - 1
                                           ELSE (currentMatchIndex + 1) % Len(matches) }
        ELSE /\ matches' = SearchExtractedPages(pageContents, query', caseSensitive',
                                                entireWord')
             /\ currentMatchIndex' = IF Len(matches') > 0 THEN 0 ELSE -1 ]_vars

\* C33: the idle callback fires only when no page is RUNNING and every page
\* of the visible range and of its two-page pre-render window is FINISHED at
\* the display scale.
C33_IdleOnlyWhenRendered ==
  [][ (idleTimeout = "armed" /\ idleTimeout' = "fired") =>
        /\ RunningPages = {}
        /\ \A p \in WindowPages : FinishedAtScale(p) ]_vars

\* C34: a page has at most one renderPage execution in progress, however
\* the scheduler chains interleave: the execution of a page is in progress
\* exactly while the page is RUNNING; renderPage for a page that is RUNNING,
\* or FINISHED at the display scale, returns with nothing changed; the
\* scheduler selects no RUNNING page for any visible range; and while a page
\* is RUNNING only its own execution moves on.
C34_OneRenderPerPage ==
  /\ [](\A p \in DOMAIN pages :
          /\ renders[p].pc # "idle" <=> pages[p].renderingState = RUNNING
          /\ (pages[p].renderingState = RUNNING \/ FinishedAtScale(p)) =>
               RenderPageStart(pages, displayScale, p)
                 = [pages |-> pages, render |-> NoRender, returned |-> TRUE])
  /\ [](\A range \in AllRanges(pageCount), dir \in Directions :
          LET selected == GetHighestPriorityPage(pages, displayScale, pageCount,
                                                 GetVisiblePages(pages, range, dir))
          IN  selected \in DOMAIN pages => pages[selected].renderingState # RUNNING)
  /\ [][ \A p \in DOMAIN pages \cap DOMAIN pages' :
           pages[p].renderingState = RUNNING =>
             \/ renders'[p] = renders[p] /\ pages'[p] = pages[p]
             \/ renders[p].pc = "getPage" /\ renders'[p].pc = "draw"
             \/ renders'[p] = NoRender /\ pages'[p].renderingState # RUNNING ]_vars

\* Two pages are being rendered at once, by two chains, one of them started
\* by an event that came while the other page was RUNNING.
C34_Witness ==
  /\ Cardinality(RunningPages) = 2
  /\ events >= 1

\* C35: -1 <= currentMatchIndex < number of matches in every state, and
\* every notification has 0 <= current <= total.
C35_IndexInRange ==
  /\ -1 <= currentMatchIndex
  /\ currentMatchIndex < Len(matches)
  /\ \A k \in 1..Len(updates) :
       0 <= updates[k].current /\ updates[k].current <= updates[k].total

\* The last of several matches is current, selected by a navigation that
\* wrapped, while the extraction is still running.
C35_Witness ==
  /\ Len(matches) >= 2
  /\ currentMatchIndex = Len(matches) - 1
  /\ extracting
  /\ updates # << >>

\* C36: the state is FOUND or WRAPPED only if there are matches and a
\* current one; and whenever a query is active and there are matches, one of
\* them is current and the state is FOUND or WRAPPED.
C36_StateAgreesWithMatches ==
  /\ findState \in {FOUND, WRAPPED} =>
       (Len(matches) > 0 /\ 0 <= currentMatchIndex /\ currentMatchIndex < Len(matches))
  /\ (query # << >> /\ Len(matches) > 0) =>
       (currentMatchIndex >= 0 /\ findState \in {FOUND, WRAPPED})

\* C37: once find has been called with a non-empty query for the current
\* document, extractionComplete is true only when the text of every page of
\* that document has been extracted (no fetch of an existing page fails
\* here), also when setDocument came while the extraction for the previous
\* document was running.
C37_CompleteMeansAllPages ==
  (extractionComplete /\ searched) =>
    \A p \in 1..Len(docs[findDocument]) : p \in DOMAIN pageContents

\* The registrations in an array of listeners, as a set.
RegSet(eventListeners) == { eventListeners[i].reg : i \in 1..Len(eventListeners) }

\* C38: when dispatch calls a once-registration it removes that registration
\* and no other: a persistent registration of the same function stays.
C38_OnceRemovesItself ==
  [][ (Len(invoked') = Len(invoked) + 1 /\ invoked'[Len(invoked')].once) =>
        RegSet(listeners') = RegSet(listeners) \ { invoked'[Len(invoked')].reg } ]_vars

\* Rect inner lies within rect outer.
Within(inner, outer) ==
  /\ outer.left <= inner.left /\ inner.right <= outer.right
  /\ outer.top <= inner.top /\ inner.bottom <= outer.bottom

\* Every pass of the while loop that merges something leaves fewer rects
\* than it was given, so the loop ends.
RECURSIVE PassesShrink(_)
PassesShrink(working) ==
  LET pass == MergePass(working, << >>, FALSE)
  IN  IF pass.merged
      THEN Len(pass.result) < Len(working) /\ PassesShrink(pass.result)
      ELSE pass.result = working

\* C39: _mergeOverlappingRects returns for every list (each repeated pass
\* has fewer rects), with at most as many rects as it was given, and every
\* rect given lies within a rect returned.
C39_MergeKeepsArea ==
  /\ PassesShrink(args[1])
  /\ results # << >> =>
       /\ Len(results[1]) <= Len(args[1])
       /\ \A i \in 1..Len(args[1]) :
            \E j \in 1..Len(results[1]) : Within(args[1][i], results[1][j])

\* Three rects came back as one that is none of them.
C39_Witness ==
  /\ results # << >>
  /\ Len(args[1]) = 3
  /\ Len(results[1]) = 1
  /\ \A i \in 1..3 : args[1][i] # results[1][1]

\* ------------------------------------------------- AnnotationManager ----
\* Annotations are records of an id and a page.  The store is the
\* RestAnnotationStore over a backend such as the one of examples/rails: it
\* keeps annotations, trashes them on delete and brings them back on restore.

\* Most annotations the backend ever creates.
MaxAnnotations == 2

\* Pages that carry annotations.
AnnotationPages == 2

\* Most manager methods called in one run.
MaxStoreCalls == 3

AnnotationIds == 1..MaxAnnotations

Annotation(id, page) == [id |-> id, page |-> page]

\* Array.findIndex(a => a.id === id), one-based; 0 when there is none.
RECURSIVE FindIndexFrom(_, _, _)
FindIndexFrom(pageAnnotations, id, i) ==
  IF i > Len(pageAnnotations) THEN 0
  ELSE IF pageAnnotations[i].id = id THEN i
  ELSE FindIndexFrom(pageAnnotations, id, i + 1)

FindIndex(pageAnnotations, id) == FindIndexFrom(pageAnnotations, id, 1)

\* Map.set(key, value)
MapSet(map, key, value) ==
  [k \in DOMAIN map \cup {key} |-> IF k = key THEN value ELSE map[k]]

\* Map.delete(key)
MapDelete(map, key) == [k \in DOMAIN map \ {key} |-> map[k]]

\* if (!byPage.has(page)) byPage.set(page, []); byPage.get(page).push(annotation)
PushOnPage(byPage, annotation) ==
  LET page == annotation.page
      pageAnnotations == IF page \in DOMAIN byPage THEN byPage[page] ELSE << >>
  IN MapSet(byPage, page, Append(pageAnnotations, annotation))

\* The two indexes as one value.
Indexes(byId, byPage) == [annotations |-> byId, annotationsByPage |-> byPage]

\* _processAnnotations(annotationsData)
RECURSIVE ProcessAnnotationsFrom(_, _, _)
ProcessAnnotationsFrom(annotationsData, i, idx) ==
  IF i > Len(annotationsData) THEN idx
  ELSE ProcessAnnotationsFrom(annotationsData, i + 1,
         Indexes(MapSet(idx.annotations, annotationsData[i].id, annotationsData[i]),
                 PushOnPage(idx.annotationsByPage, annotationsData[i])))

ProcessAnnotations(annotationsData) ==
  ProcessAnnotationsFrom(annotationsData, 1, Indexes(<< >>, << >>))

\* _addAnnotation(annotation)
AddAnnotation(idx, annotation) ==
  Indexes(MapSet(idx.annotations, annotation.id, annotation),
          PushOnPage(idx.annotationsByPage, annotation))

\* _removeAnnotationFromPage(id, pageNumber)
RemoveAnnotationFromPage(byPage, id, pageNumber) ==
  IF pageNumber \notin DOMAIN byPage THEN byPage
  ELSE LET pageAnnotations == byPage[pageNumber]
           index == FindIndex(pageAnnotations, id)
       IN IF index = 0 THEN byPage
          ELSE [byPage EXCEPT ![pageNumber] =
                  SubSeq(pageAnnotations, 1, index - 1)
                  \o SubSeq(pageAnnotations, index + 1, Len(pageAnnotations))]

\* _removeAnnotation(id)
RemoveAnnotation(idx, id) ==
  IF id \notin DOMAIN idx.annotations THEN idx
  ELSE Indexes(MapDelete(idx.annotations, id),
               RemoveAnnotationFromPage(idx.annotationsByPage, id,
                                        idx.annotations[id].page))

\* _updateAnnotation(annotation) throws when the page of the old annotation
\* has no list: findIndex is then called on undefined.
UpdateThrows(idx, annotation) ==
  /\ annotation.id \in DOMAIN idx.annotations
  /\ idx.annotations[annotation.id].page = annotation.page
  /\ annotation.page \notin DOMAIN idx.annotationsByPage

\* _updateAnnotation(annotation), when it does not throw
UpdateAnnotationIndexes(idx, annotation) ==
  IF annotation.id \notin DOMAIN idx.annotations THEN AddAnnotation(idx, annotation)
  ELSE LET oldAnnotation == idx.annotations[annotation.id]
           byPage == idx.annotationsByPage
           newByPage ==
             IF oldAnnotation.page # annotation.page
             THEN PushOnPage(RemoveAnnotationFromPage(byPage, oldAnnotation.id,
                                                      oldAnnotation.page),
                             annotation)
             ELSE LET index == FindIndex(byPage[annotation.page], annotation.id)
                  IN IF index = 0 THEN byPage
                     ELSE [byPage EXCEPT ![annotation.page][index] = annotation]
       IN Indexes(MapSet(idx.annotations, annotation.id, annotation), newByPage)

\* The annotations a load returns: the kept ones, the newest first.
RECURSIVE KeptFrom(_, _)
KeptFrom(kept, id) ==
  IF id = 0 THEN << >>
  ELSE (IF id \in DOMAIN kept THEN << kept[id] >> ELSE << >>) \o KeptFrom(kept, id - 1)

KeptAnnotations(kept) == KeptFrom(kept, MaxAnnotations)

\* A store call: the method awaiting it, its arguments and, once the backend
\* has answered, whether response.ok was true and the JSON of the response.
StoreCall(op, id, page) ==
  [op |-> op, id |-> id, page |-> page, phase |-> "sent", body |-> << >>]

Answered(call, body) == [call EXCEPT !.phase = "ok", !.body = body]

Refused(call) == [call EXCEPT !.phase = "failed"]

RemoveAt(seq, i) == SubSeq(seq, 1, i - 1) \o SubSeq(seq, i + 1, Len(seq))

CreatesAwaited ==
  Cardinality({ i \in 1..Len(requests) :
                  requests[i].op = "create" /\ requests[i].phase = "sent" })

InitManager ==
  /\ loadState = "new"
  /\ pdfDocument = FALSE
  /\ pageCount = 0
  /\ pages = << >>
  /\ displayScale = 1
  /\ scrollDirection = "down"
  /\ viewport = <<1, 1>>
  /\ renders = << >>
  /\ microtasks = 0
  /\ spinning = FALSE
  /\ idleTimeout = "none"
  /\ events = 0
  /\ renderLog = << >>
  /\ picked = << >>
  /\ docs = << >>
  /\ FindConstructed
  /\ BusConstructed
  /\ GeometryIdle
  /\ NoSpan
  /\ ManagerConstructed

\* What a manager method leaves alone up to its await.
AwaitUnchanged ==
  UNCHANGED <<rvars, gvars, fvars, bvars, xvars, hvars,
              annotations, annotationsByPage, store, errors>>

\* loadAnnotations() up to its await: store.load() sends the GET.
CallLoadAnnotations ==
  /\ storeCalls < MaxStoreCalls
  /\ storeCalls' = storeCalls + 1
  /\ requests' = Append(requests, StoreCall("load", 0, 0))
  /\ AwaitUnchanged

\* createAnnotation(data) up to its await: store.create(data) sends the POST.
CallCreateAnnotation ==
  \E page \in 1..AnnotationPages :
    /\ storeCalls < MaxStoreCalls
    /\ store.nextId + CreatesAwaited <= MaxAnnotations
    /\ storeCalls' = storeCalls + 1
    /\ requests' = Append(requests, StoreCall("create", 0, page))
    /\ AwaitUnchanged

\* updateAnnotation(id, data) up to its await: store.update sends the PATCH.
CallUpdateAnnotation ==
  \E id \in AnnotationIds, page \in 1..AnnotationPages :
    /\ storeCalls < MaxStoreCalls
    /\ storeCalls' = storeCalls + 1
    /\ requests' = Append(requests, StoreCall("update", id, page))
    /\ AwaitUnchanged

\* deleteAnnotation(id) up to its await: it returns at once for an id that
\* is not in the id map, and sends the DELETE otherwise.
CallDeleteAnnotation ==
  \E id \in AnnotationIds :
    /\ storeCalls < MaxStoreCalls
    /\ storeCalls' = storeCalls + 1
    /\ requests' = IF id \in DOMAIN annotations
                   THEN Append(requests, StoreCall("delete", id, 0))
                   ELSE requests
    /\ AwaitUnchanged

\* restoreAnnotation(id) up to its await: store.restore sends the PATCH.
CallRestoreAnnotation ==
  \E id \in AnnotationIds :
    /\ storeCalls < MaxStoreCalls
    /\ storeCalls' = storeCalls + 1
    /\ requests' = Append(requests, StoreCall("restore", id, 0))
    /\ AwaitUnchanged

\* The backend handles one of the requests it was sent: index lists the kept
\* annotations, create saves a new one, update and destroy find the
\* annotation among the kept ones and restore among the trashed ones; a
\* request whose annotation is not found is answered with an error.
BackendAnswers ==
  \E i \in 1..Len(requests) :
    LET call == requests[i]
        kept == store.kept
        trashed == store.trashed
    IN /\ call.phase = "sent"
       /\ \/ /\ call.op = "load"
             /\ requests' = [requests EXCEPT ![i] = Answered(call, KeptAnnotations(kept))]
             /\ store' = store
          \/ /\ call.op = "create"
             /\ LET annotation == Annotation(store.nextId, call.page)
                IN /\ requests' = [requests EXCEPT ![i] = Answered(call, << annotation >>)]
                   /\ store' = [store EXCEPT !.kept = MapSet(kept, annotation.id, annotation),
                                             !.nextId = store.nextId + 1]
          \/ /\ call.op = "update"
             /\ call.id \in DOMAIN kept
             /\ LET annotation == Annotation(call.id, call.page)
                IN /\ requests' = [requests EXCEPT ![i] = Answered(call, << annotation >>)]
                   /\ store' = [store EXCEPT !.kept = MapSet(kept, call.id, annotation)]
          \/ /\ call.op = "delete"
             /\ call.id \in DOMAIN kept
             /\ requests' = [requests EXCEPT ![i] = Answered(call, << kept[call.id] >>)]
             /\ store' = [store EXCEPT !.kept = MapDelete(kept, call.id),
                                       !.trashed = MapSet(trashed, call.id, kept[call.id])]
          \/ /\ call.op = "restore"
             /\ call.id \in DOMAIN trashed
             /\ requests' = [requests EXCEPT ![i] = Answered(call, << trashed[call.id] >>)]
             /\ store' = [store EXCEPT !.trashed = MapDelete(trashed, call.id),
                                       !.kept = MapSet(kept, call.id, trashed[call.id])]
          \/ /\ call.op \in {"update", "delete"}
             /\ call.id \notin DOMAIN kept
             /\ requests' = [requests EXCEPT ![i] = Refused(call)]
             /\ store' = store
          \/ /\ call.op = "restore"
             /\ call.id \notin DOMAIN trashed
             /\ requests' = [requests EXCEPT ![i] = Refused(call)]
             /\ store' = store
       /\ UNCHANGED <<rvars, gvars, fvars, bvars, xvars, hvars,
                      annotations, annotationsByPage, storeCalls, errors>>

\* A request does not reach the backend, or the backend cannot serve it:
\* response.ok is false and nothing is saved.
RequestFails ==
  \E i \in 1..Len(requests) :
    /\ requests[i].phase = "sent"
    /\ requests' = [requests EXCEPT ![i] = Refused(requests[i])]
    /\ UNCHANGED <<rvars, gvars, fvars, bvars, xvars, hvars,
                   annotations, annotationsByPage, store, storeCalls, errors>>

\* The store call of a manager method rejects: the catch block logs,
\* dispatches the error event and rethrows.
StoreCallRejected ==
  \E i \in 1..Len(requests) :
    /\ requests[i].phase = "failed"
    /\ requests' = RemoveAt(requests, i)
    /\ errors' = errors + 1
    /\ UNCHANGED <<rvars, gvars, fvars, bvars, xvars, hvars,
                   annotations, annotationsByPage, store, storeCalls>>

\* The store call of a manager method resolves and the method runs to its end.
StoreCallResolved ==
  \E i \in 1..Len(requests) :
    LET call == requests[i]
        idx == Indexes(annotations, annotationsByPage)
        throws == call.op = "update" /\ UpdateThrows(idx, call.body[1])
        after ==
          CASE call.op = "load" -> ProcessAnnotations(call.body)
            [] call.op = "create" -> AddAnnotation(idx, call.body[1])
            [] call.op = "update" ->
                 IF throws THEN idx ELSE UpdateAnnotationIndexes(idx, call.body[1])
            [] call.op = "delete" -> RemoveAnnotation(idx, call.id)
            [] call.op = "restore" ->
                 IF call.body = << >> THEN idx ELSE AddAnnotation(idx, call.body[1])
    IN /\ call.phase = "ok"
       /\ requests' = RemoveAt(requests, i)
       /\ annotations' = after.annotations
       /\ annotationsByPage' = after.annotationsByPage
       /\ errors' = IF throws THEN errors + 1 ELSE errors
       /\ UNCHANGED <<rvars, gvars, fvars, bvars, xvars, hvars, store, storeCalls>>

NextManager ==
  \/ CallLoadAnnotations
  \/ CallCreateAnnotation
  \/ CallUpdateAnnotation
  \/ CallDeleteAnnotation
  \/ CallRestoreAnnotation
  \/ BackendAnswers
  \/ RequestFails
  \/ StoreCallRejected
  \/ StoreCallResolved

SpecManager == InitManager /\ [][NextManager]_vars

\* How often the annotation with this id is in the list of a page.
TimesOnPage(byPage, page, id) ==
  IF page \notin DOMAIN byPage THEN 0
  ELSE Cardinality({ k \in 1..Len(byPage[page]) : byPage[page][k].id = id })

\* Both indexes hold the same annotations, each once and under its own page.
IndexesAgree ==
  /\ \A id \in DOMAIN annotations :
       \A page \in 1..AnnotationPages :
         TimesOnPage(annotationsByPage, page, id)
           = IF page = annotations[id].page THEN 1 ELSE 0
  /\ \A page \in DOMAIN annotationsByPage :
       \A k \in 1..Len(annotationsByPage[page]) :
         LET annotation == annotationsByPage[page][k]
         IN /\ annotation.id \in DOMAIN annotations
            /\ annotations[annotation.id] = annotation

\* C40: the id map and the per-page lists of the AnnotationManager agree after
\* any calls of loadAnnotations, createAnnotation, updateAnnotation,
\* deleteAnnotation and restoreAnnotation: every annotation of the id map is
\* exactly once in the list of its own page and in no other list, the lists
\* hold no annotation that the id map does not have, and a store call that
\* fails leaves both indexes as they were.
C40_IndexesAgree ==
  /\ [] IndexesAgree
  /\ [][ errors' # errors =>
           /\ annotations' = annotations
           /\ annotationsByPage' = annotationsByPage ]_vars

====
